---- MODULE Spec2Model ----
(***************************************************************************)
(* Verification model of the ADPF Unreal plugin: the ADPFManager control   *)
(* loop (Monitor), its performance-hint session lifecycle, and the thermal *)
(* provider selection (CreateThermalProvider).                             *)
(*                                                                         *)
(* Units: headroom is kept in thousandths (0.75f is 750), clock values in  *)
(* seconds, thread times in the engine's unit before the * 1000 scaling.   *)
(* JNI handles (jobject global references, jmethodIDs) are modelled by     *)
(* whether they are non-null; the set of global references the platform    *)
(* still holds is tracked separately in jni_refs.                          *)
(* FAndroidApplication::GetJavaEnv() is taken to return an environment.    *)
(***************************************************************************)
EXTENDS Integers, Sequences, FiniteSets, TLC

VARIABLES
    adpf,       \* the ADPFManager singleton's fields
    now,        \* the value Clock() returns
    jni_refs,   \* JNI global references currently alive on the platform
    calls,      \* platform / engine calls issued by the most recent Monitor()
    tick,       \* what the most recent Monitor() read from its environment
    apply_log,  \* arguments of every SetQualityLevels call so far, in order
    refreshes,  \* number of headroom refreshes Monitor() has made so far
    device,     \* the device: API level and what each platform service answers
    sel,        \* CreateThermalProvider(): position, candidates, result
    thermal,    \* platform thermal service: acquired managers, listeners
    life,       \* the singleton's lifetime: phase of the process run, the
                \* power-service references alive, what this run has seen
    push,       \* the returned native / JNI provider in use: the status
                \* callback in progress, the last GetThermalStatus()
    samsung     \* the Samsung GameSDK and the shared callback registry

vars == <<adpf, now, jni_refs, calls, tick, apply_log, refreshes, device, sel,
          thermal, life, push, samsung>>
mgr_vars == <<adpf, now, jni_refs, calls, tick, apply_log, refreshes, life>>
sel_vars == <<device, sel, thermal, push, samsung>>

----------------------------------------------------------------------------
(* Program constants *)

max_quality_count == 4
kThermalHeadroomUpdateThreshold == 15
DEFAULT_TARGET_NS == 16666666
NO_MAX_FPS == -1
NaN == -1

(* Bounds of the model *)

MaxClock == 60
\* Monitor() calls between two headroom refreshes (fps_count)
MaxFrames == 4
\* Calls of CreateThermalProvider() in one behaviour
MaxRuns == 2
\* Warning events of the GameSDK in one behaviour
MaxWarnings == 4
\* Entries of the Samsung callback registry
MaxRegistered == 2

Sessions == <<"game", "render", "rhi">>
SessionSet == {"game", "render", "rhi"}

\* Headroom readings the platform may return (thousandths), NaN included.
Headrooms == {NaN, 0, 600, 749, 750, 800, 849, 850, 949, 950, 960, 970, 1200}
\* Values of GEngine->GetMaxFPS().
FpsValues == {-1, 0, 30, 60}
\* Values of GGameThreadTime / GRenderThreadTime / GRHIThreadTime.
ThreadTimes == {0, 3}
\* Clock advance between two Monitor() calls.
ClockSteps == {0, 7, 15}
\* Outcome of CreateHintSession for one thread: createHintSession returned
\* null, or a session whose two GetMethodID lookups resolve or not.
SessionOutcomes == {"null", "ok", "no_report", "no_update", "no_methods"}

----------------------------------------------------------------------------
(* Float helpers *)

IsNaN(x) == x = NaN

\* a < b on floats: false when either side is NaN
FLess(a, b) == ~IsNaN(a) /\ ~IsNaN(b) /\ a < b

RECURSIVE Pow2(_)
Pow2(n) == IF n = 0 THEN 1 ELSE 2 * Pow2(n - 1)

\* Round n/d (n, d > 0) to a float (24-bit significand, round to nearest
\* even) and truncate the float to an integer, as static_cast<jlong> does.
RECURSIVE ScaleDown(_, _, _)
ScaleDown(n, d, e) ==
    IF n \div (d * Pow2(e)) < Pow2(24) THEN e ELSE ScaleDown(n, d, e + 1)

RoundDiv(n, d) ==
    LET q == n \div d
        r == n % d
    IN  IF 2 * r > d \/ (2 * r = d /\ q % 2 = 1) THEN q + 1 ELSE q

\* Fractional bits needed so that q (>= 1) fills a 24-bit significand.
RECURSIVE FracBits(_, _)
FracBits(q, k) == IF q * Pow2(k) >= Pow2(23) THEN k ELSE FracBits(q, k + 1)

\* Whether q + r/d, kept with k fractional bits, rounds up to q + 1.
RECURSIVE CarriesUp(_, _, _, _)
CarriesUp(r, d, k, odd) ==
    IF k = 0 THEN 2 * r > d \/ (2 * r = d /\ odd)
    ELSE 2 * r >= d /\ CarriesUp(2 * r - d, d, k - 1, TRUE)

FloatDivTrunc(n, d) ==
    LET q == n \div d
        r == n % d
    IN  IF q >= Pow2(23)
        THEN LET e == ScaleDown(n, d, 0) IN RoundDiv(n, d * Pow2(e)) * Pow2(e)
        ELSE IF q = 0 THEN 0
        ELSE IF CarriesUp(r, d, FracBits(q, 0), q % 2 = 1) THEN q + 1 ELSE q

\* Mutant: the quotient taken in microseconds
fpsToNanosec_Micro(maxFPS) == FloatDivTrunc(1000000, maxFPS)

\* jlong ADPFManager::fpsToNanosec(const float maxFPS)
fpsToNanosec(maxFPS) == FloatDivTrunc(1000000000, maxFPS)

----------------------------------------------------------------------------
(* The world an operation acts on: the manager and the platform around it *)

World == [adpf |-> adpf, jni_refs |-> jni_refs, calls |-> <<>>,
          apply_log |-> apply_log]

Call(op, obj, arg) == [op |-> op, obj |-> obj, arg |-> arg]

Emit(w, c) == [w EXCEPT !.calls = Append(@, c)]

\* env->DeleteGlobalRef(ref)
DeleteGlobalRef(w, ref) ==
    [Emit(w, Call("DeleteGlobalRef", ref, 0)) EXCEPT !.jni_refs = @ \ {ref}]

\* env->NewGlobalRef(obj)
NewGlobalRef(w, ref) == [w EXCEPT !.jni_refs = @ \cup {ref}]

----------------------------------------------------------------------------
(* ADPFManager *)

\* The singleton after its constructor and a successful registerListener()
InitADPF ==
    [ initialized_performance_hint_manager |-> FALSE,
      support_performance_hint_manager |-> TRUE,
      thermal_status_ |-> 0,
      thermal_headroom_ |-> 0,
      last_clock_ |-> 0,
      obj_power_service_ |-> TRUE,
      get_thermal_headroom_ |-> TRUE,
      obj_perfhint_service_ |-> FALSE,
      obj_perfhint_session_ |-> [s \in SessionSet |-> FALSE],
      report_actual_work_duration_ |-> [s \in SessionSet |-> FALSE],
      update_target_work_duration_ |-> [s \in SessionSet |-> FALSE],
      current_quality_level |-> max_quality_count - 1,
      target_quality_level |-> max_quality_count - 1,
      prev_max_fps |-> NO_MAX_FPS,
      prev_max_fps_nano |-> 0,
      fps_count |-> 0 ]

\* a <= b on floats
FLessEq(a, b) == ~IsNaN(a) /\ ~IsNaN(b) /\ a <= b

\* Mutant: the breakpoints taken inclusively (<= instead of <)
saveQualityLevel_Inclusive(m, head_room) ==
    [m EXCEPT !.target_quality_level =
        IF FLessEq(head_room, 750) THEN 3
        ELSE IF FLessEq(head_room, 850) THEN 2
        ELSE IF FLessEq(head_room, 950) THEN 1
        ELSE 0]

\* Mutant: the two middle levels exchanged
saveQualityLevel_Swapped(m, head_room) ==
    [m EXCEPT !.target_quality_level =
        IF FLess(head_room, 750) THEN 3
        ELSE IF FLess(head_room, 850) THEN 1
        ELSE IF FLess(head_room, 950) THEN 2
        ELSE 0]

\* Mutant: the coolest band asks for the level one past the table
saveQualityLevel_OffTable(m, head_room) ==
    [m EXCEPT !.target_quality_level =
        IF FLess(head_room, 750) THEN max_quality_count
        ELSE IF FLess(head_room, 850) THEN 2
        ELSE IF FLess(head_room, 950) THEN 1
        ELSE 0]

\* void ADPFManager::saveQualityLevel(const float head_room)
saveQualityLevel(m, head_room) ==
    [m EXCEPT !.target_quality_level =
        IF FLess(head_room, 750) THEN 3
        ELSE IF FLess(head_room, 850) THEN 2
        ELSE IF FLess(head_room, 950) THEN 1
        ELSE 0]

\* Mutant: the headroom is read and stored without looking at the method id
UpdateThermalStatusHeadRoom_Unguarded(w, h) ==
    [Emit(w, Call("getThermalHeadroom", "power", 0))
        EXCEPT !.adpf.thermal_headroom_ = h]

\* float ADPFManager::UpdateThermalStatusHeadRoom(); h is what
\* PowerManager.getThermalHeadroom returns
UpdateThermalStatusHeadRoom(w, h) ==
    IF ~w.adpf.get_thermal_headroom_ THEN w
    ELSE [Emit(w, Call("getThermalHeadroom", "power", 0))
             EXCEPT !.adpf.thermal_headroom_ = h]

\* bool ADPFManager::InitializePowerManager(), reached from
\* registerListener(): mid is whether getThermalHeadroom resolved, h the
\* first reading.  Yields the manager; the returned value is mid /\ ~IsNaN(h).
InitializePowerManager(m, mid, h) ==
    [m EXCEPT !.obj_power_service_ = TRUE,
              !.get_thermal_headroom_ = mid,
              !.thermal_headroom_ = IF mid THEN h ELSE @]

\* Mutant: the level is applied after every refresh, changed or not
ApplyQualityLevel_Always(w) ==
    LET level == w.adpf.target_quality_level
        w1 == [w EXCEPT !.adpf.current_quality_level = level,
                        !.apply_log = Append(@, level)]
    IN  Emit(w1, Call("SetQualityLevels", "engine", level))

\* Mutant: the level is applied but current_quality_level is not advanced
ApplyQualityLevel_NoCommit(w) ==
    LET new_target == w.adpf.target_quality_level IN
    IF w.adpf.current_quality_level # new_target
    THEN Emit([w EXCEPT !.apply_log = Append(@, new_target)],
              Call("SetQualityLevels", "engine", new_target))
    ELSE w

\* Monitor(), the quality change after a refresh
ApplyQualityLevel(w) ==
    LET new_target == w.adpf.target_quality_level IN
    IF w.adpf.current_quality_level # new_target
    THEN LET level == IF new_target > max_quality_count
                      THEN max_quality_count - 1 ELSE new_target
             w1 == [w EXCEPT !.adpf.current_quality_level = level,
                             !.apply_log = Append(@, level)]
         IN  Emit(w1, Call("SetQualityLevels", "engine", level))
    ELSE w

\* Mutant: the quality change is made whatever the quality mode is
RefreshQuality_IgnoresMode(w, current_clock, h, quality_mode) ==
    LET w0 == UpdateThermalStatusHeadRoom(w, h)
        m2 == [w0.adpf EXCEPT !.last_clock_ = current_clock, !.fps_count = 0]
        m3 == saveQualityLevel(m2, m2.thermal_headroom_)
    IN  ApplyQualityLevel([w0 EXCEPT !.adpf = m3])

\* Mutant: the target is recomputed in every quality mode, and applied only
\* when the mode is not 0
RefreshQuality_SavesAlways(w, current_clock, h, quality_mode) ==
    LET w0 == UpdateThermalStatusHeadRoom(w, h)
        m2 == [w0.adpf EXCEPT !.last_clock_ = current_clock, !.fps_count = 0]
        m3 == saveQualityLevel(m2, m2.thermal_headroom_)
        w1 == [w0 EXCEPT !.adpf = m3]
    IN  IF quality_mode # 0 THEN ApplyQualityLevel(w1) ELSE w1

\* Mutant: the refresh does not restart the threshold window
RefreshQuality_KeepsClock(w, current_clock, h, quality_mode) ==
    LET w0 == UpdateThermalStatusHeadRoom(w, h)
        m2 == [w0.adpf EXCEPT !.fps_count = 0]
        m3 == IF quality_mode = 1
              THEN saveQualityLevel(m2, m2.thermal_headroom_) ELSE m2
        w1 == [w0 EXCEPT !.adpf = m3]
    IN  IF quality_mode # 0 THEN ApplyQualityLevel(w1) ELSE w1

\* Monitor(), the block run when the refresh threshold has elapsed
RefreshQuality(w, current_clock, h, quality_mode) ==
    LET w0 == UpdateThermalStatusHeadRoom(w, h)
        m2 == [w0.adpf EXCEPT !.last_clock_ = current_clock, !.fps_count = 0]
        m3 == IF quality_mode = 1
              THEN saveQualityLevel(m2, m2.thermal_headroom_) ELSE m2
        w1 == [w0 EXCEPT !.adpf = m3]
    IN  IF quality_mode # 0 THEN ApplyQualityLevel(w1) ELSE w1

----------------------------------------------------------------------------
(* Performance hint manager *)

\* void ADPFManager::DestroyPerformanceHintManager(), one session's release
DestroySession(w, s) ==
    IF w.adpf.obj_perfhint_session_[s]
    THEN [DeleteGlobalRef(w, s) EXCEPT !.adpf.obj_perfhint_session_[s] = FALSE]
    ELSE w

\* Mutant: the hint-service reference is deleted and the handle kept
DestroyPerformanceHintManager_KeepsService(w) ==
    LET w0 == [w EXCEPT !.adpf.prev_max_fps = NO_MAX_FPS] IN
    IF w0.adpf.obj_perfhint_service_
    THEN LET w1 == DestroySession(w0, "game")
             w2 == DestroySession(w1, "render")
             w3 == DestroySession(w2, "rhi")
         IN  DeleteGlobalRef(w3, "service")
    ELSE w0

\* void ADPFManager::DestroyPerformanceHintManager()
DestroyPerformanceHintManager(w) ==
    LET w0 == [w EXCEPT !.adpf.prev_max_fps = NO_MAX_FPS] IN
    IF w0.adpf.obj_perfhint_service_
    THEN LET w1 == DestroySession(w0, "game")
             w2 == DestroySession(w1, "render")
             w3 == DestroySession(w2, "rhi")
         IN  [DeleteGlobalRef(w3, "service")
                 EXCEPT !.adpf.obj_perfhint_service_ = FALSE]
    ELSE w0

\* The CreateHintSession lambda of InitializePerformanceHintManager;
\* o is what the platform answers for this thread.
CreateHintSession(w, s, o) ==
    IF o # "null"
    THEN [NewGlobalRef(w, s) EXCEPT
            !.adpf.obj_perfhint_session_[s] = TRUE,
            !.adpf.report_actual_work_duration_[s] = o \in {"ok", "no_update"},
            !.adpf.update_target_work_duration_[s] = o \in {"ok", "no_report"}]
    ELSE w

\* The final check of InitializePerformanceHintManager: a method id is 0
MethodMissing(m) ==
    \E s \in SessionSet : ~m.report_actual_work_duration_[s]
                          \/ ~m.update_target_work_duration_[s]

\* Mutant: a failed initialization returns without tearing down
InitializePerformanceHintManager_NoTeardown(w, out) ==
    LET wc == Emit(w, Call("InitializePerformanceHintManager", "adpf", 0)) IN
    IF ~out.fid THEN [w |-> wc, ok |-> FALSE]
    ELSE LET w0 == [NewGlobalRef(wc, "service")
                       EXCEPT !.adpf.obj_perfhint_service_ = TRUE]
             w1 == CreateHintSession(w0, "game", out.session["game"])
             w2 == CreateHintSession(w1, "render", out.session["render"])
             w3 == CreateHintSession(w2, "rhi", out.session["rhi"])
         IN  [w |-> w3, ok |-> ~MethodMissing(w3.adpf)]

\* bool ADPFManager::InitializePerformanceHintManager(); out.fid is whether
\* Context.PERFORMANCE_HINT_SERVICE exists, out.session the three
\* CreateHintSession outcomes.  Yields the world and the returned value.
InitializePerformanceHintManager(w, out) ==
    LET wc == Emit(w, Call("InitializePerformanceHintManager", "adpf", 0)) IN
    IF ~out.fid THEN [w |-> wc, ok |-> FALSE]
    ELSE LET w0 == [NewGlobalRef(wc, "service")
                       EXCEPT !.adpf.obj_perfhint_service_ = TRUE]
             w1 == CreateHintSession(w0, "game", out.session["game"])
             w2 == CreateHintSession(w1, "render", out.session["render"])
             w3 == CreateHintSession(w2, "rhi", out.session["rhi"])
         IN  IF MethodMissing(w3.adpf)
             THEN [w |-> DestroyPerformanceHintManager(w3), ok |-> FALSE]
             ELSE [w |-> w3, ok |-> TRUE]

\* Mutant: a duration of zero is not reported
UpdatePerfHintSession_SkipsZero(w, s, duration_ns, target_duration_ns, update_target_duration) ==
    IF w.adpf.obj_perfhint_session_[s] /\ duration_ns > 0
    THEN LET w1 == Emit(w, Call("reportActualWorkDuration", s, duration_ns))
         IN  IF update_target_duration
             THEN Emit(w1, Call("updateTargetWorkDuration", s, target_duration_ns))
             ELSE w1
    ELSE w

\* void ADPFManager::UpdatePerfHintSession(...)
UpdatePerfHintSession(w, s, duration_ns, target_duration_ns, update_target_duration) ==
    IF w.adpf.obj_perfhint_session_[s]
    THEN LET w1 == Emit(w, Call("reportActualWorkDuration", s, duration_ns))
         IN  IF update_target_duration
             THEN Emit(w1, Call("updateTargetWorkDuration", s, target_duration_ns))
             ELSE w1
    ELSE w

\* Mutant: a failed initialization leaves the support flag set
HintInitialize_Retry(w, out) ==
    IF ~w.adpf.initialized_performance_hint_manager
    THEN LET r == InitializePerformanceHintManager(w, out) IN
         IF r.ok
         THEN [r.w EXCEPT !.adpf.initialized_performance_hint_manager = TRUE,
                          !.adpf.prev_max_fps = NO_MAX_FPS]
         ELSE r.w
    ELSE w

\* Monitor(), "Initialization, attempt only once if not already initialized"
HintInitialize(w, out) ==
    IF ~w.adpf.initialized_performance_hint_manager
    THEN LET r == InitializePerformanceHintManager(w, out) IN
         IF r.ok
         THEN [r.w EXCEPT !.adpf.initialized_performance_hint_manager = TRUE,
                          !.adpf.prev_max_fps = NO_MAX_FPS]
         ELSE [r.w EXCEPT !.adpf.support_performance_hint_manager = FALSE]
    ELSE w

\* Mutant: the target duration is pushed on every update
HintUpdate_AlwaysPush(w, current_max_fps, times) ==
    LET target_duration_nano ==
            IF current_max_fps <= 0 THEN DEFAULT_TARGET_NS
            ELSE fpsToNanosec(current_max_fps)
        w0 == [w EXCEPT !.adpf.prev_max_fps = current_max_fps,
                        !.adpf.prev_max_fps_nano = target_duration_nano]
        w1 == IF times["game"] > 0
              THEN UpdatePerfHintSession(w0, "game", times["game"] * 1000,
                        target_duration_nano, TRUE)
              ELSE [w0 EXCEPT !.adpf.prev_max_fps = NO_MAX_FPS]
        w2 == UpdatePerfHintSession(w1, "render", times["render"] * 1000,
                  target_duration_nano, TRUE)
    IN  UpdatePerfHintSession(w2, "rhi", times["rhi"] * 1000,
            target_duration_nano, TRUE)

\* Mutant: an idle game thread does not reset the cached max fps
HintUpdate_NoReset(w, current_max_fps, times) ==
    LET m == w.adpf
        update_target_duration == m.prev_max_fps # current_max_fps
        target_duration_nano ==
            IF update_target_duration
            THEN IF current_max_fps <= 0 THEN DEFAULT_TARGET_NS
                 ELSE fpsToNanosec(current_max_fps)
            ELSE m.prev_max_fps_nano
        w0 == IF update_target_duration
              THEN [w EXCEPT !.adpf.prev_max_fps = current_max_fps,
                             !.adpf.prev_max_fps_nano = target_duration_nano]
              ELSE w
        w1 == IF times["game"] > 0
              THEN UpdatePerfHintSession(w0, "game", times["game"] * 1000,
                        target_duration_nano, update_target_duration)
              ELSE w0
        w2 == UpdatePerfHintSession(w1, "render", times["render"] * 1000,
                  target_duration_nano, update_target_duration)
    IN  UpdatePerfHintSession(w2, "rhi", times["rhi"] * 1000,
            target_duration_nano, update_target_duration)

\* Mutant: the render and the RHI session both get the longer of the two
\* durations
HintUpdate_LongestOfTwo(w, current_max_fps, times) ==
    LET m == w.adpf
        update_target_duration == m.prev_max_fps # current_max_fps
        target_duration_nano ==
            IF update_target_duration
            THEN IF current_max_fps <= 0 THEN DEFAULT_TARGET_NS
                 ELSE fpsToNanosec(current_max_fps)
            ELSE m.prev_max_fps_nano
        longest == IF times["render"] > times["rhi"]
                   THEN times["render"] ELSE times["rhi"]
        w0 == IF update_target_duration
              THEN [w EXCEPT !.adpf.prev_max_fps = current_max_fps,
                             !.adpf.prev_max_fps_nano = target_duration_nano]
              ELSE w
        w1 == IF times["game"] > 0
              THEN UpdatePerfHintSession(w0, "game", times["game"] * 1000,
                        target_duration_nano, update_target_duration)
              ELSE [w0 EXCEPT !.adpf.prev_max_fps = NO_MAX_FPS]
        w2 == UpdatePerfHintSession(w1, "render", longest * 1000,
                  target_duration_nano, update_target_duration)
    IN  UpdatePerfHintSession(w2, "rhi", longest * 1000,
            target_duration_nano, update_target_duration)

\* Mutant: the update sends the duration cached by the previous update
HintUpdate_SendsCached(w, current_max_fps, times) ==
    LET m == w.adpf
        update_target_duration == m.prev_max_fps # current_max_fps
        target_duration_nano == m.prev_max_fps_nano
        w0 == IF update_target_duration
              THEN [w EXCEPT !.adpf.prev_max_fps = current_max_fps,
                             !.adpf.prev_max_fps_nano =
                                 IF current_max_fps <= 0 THEN DEFAULT_TARGET_NS
                                 ELSE fpsToNanosec(current_max_fps)]
              ELSE w
        w1 == IF times["game"] > 0
              THEN UpdatePerfHintSession(w0, "game", times["game"] * 1000,
                        target_duration_nano, update_target_duration)
              ELSE [w0 EXCEPT !.adpf.prev_max_fps = NO_MAX_FPS]
        w2 == UpdatePerfHintSession(w1, "render", times["render"] * 1000,
                  target_duration_nano, update_target_duration)
    IN  UpdatePerfHintSession(w2, "rhi", times["rhi"] * 1000,
            target_duration_nano, update_target_duration)

\* Monitor(), "Update Logic, proceed only if successfully initialized"
HintUpdate(w, current_max_fps, times) ==
    LET m == w.adpf
        update_target_duration == m.prev_max_fps # current_max_fps
        target_duration_nano ==
            IF update_target_duration
            THEN IF current_max_fps <= 0 THEN DEFAULT_TARGET_NS
                 ELSE fpsToNanosec(current_max_fps)
            ELSE m.prev_max_fps_nano
        w0 == IF update_target_duration
              THEN [w EXCEPT !.adpf.prev_max_fps = current_max_fps,
                             !.adpf.prev_max_fps_nano = target_duration_nano]
              ELSE w
        w1 == IF times["game"] > 0
              THEN UpdatePerfHintSession(w0, "game", times["game"] * 1000,
                        target_duration_nano, update_target_duration)
              ELSE [w0 EXCEPT !.adpf.prev_max_fps = NO_MAX_FPS]
        w2 == UpdatePerfHintSession(w1, "render", times["render"] * 1000,
                  target_duration_nano, update_target_duration)
    IN  UpdatePerfHintSession(w2, "rhi", times["rhi"] * 1000,
            target_duration_nano, update_target_duration)

\* Mutant: switching the feature off re-arms the support flag
HintCleanup_Rearm(w) ==
    LET w0 == [w EXCEPT !.adpf.support_performance_hint_manager = TRUE] IN
    IF w0.adpf.initialized_performance_hint_manager
    THEN DestroyPerformanceHintManager(
            [w0 EXCEPT !.adpf.initialized_performance_hint_manager = FALSE,
                       !.adpf.prev_max_fps = NO_MAX_FPS])
    ELSE w0

\* Monitor(), "Cleanup Logic, if feature was initialized but is now
\* disabled/unsupported"
HintCleanup(w) ==
    IF w.adpf.initialized_performance_hint_manager
    THEN DestroyPerformanceHintManager(
            [w EXCEPT !.adpf.initialized_performance_hint_manager = FALSE,
                      !.adpf.prev_max_fps = NO_MAX_FPS])
    ELSE w

\* Monitor(), the hint manager logic
HintManager(w, hint_enabled, out, current_max_fps, times) ==
    IF hint_enabled # 0 /\ w.adpf.support_performance_hint_manager
    THEN LET w1 == HintInitialize(w, out) IN
         IF w1.adpf.initialized_performance_hint_manager
         THEN HintUpdate(w1, current_max_fps, times)
         ELSE w1
    ELSE HintCleanup(w)

\* Mutant: the master switch clears the flag and keeps the sessions
MonitorDisabled_KeepsSessions(w) ==
    [w EXCEPT !.adpf.initialized_performance_hint_manager = FALSE]

\* Mutant: the early return comes after the fps accumulation
MonitorDisabled_CountsFrame(w) ==
    LET w0 == [w EXCEPT !.adpf.fps_count = @ + 1] IN
    IF w0.adpf.initialized_performance_hint_manager
    THEN DestroyPerformanceHintManager(
            [w0 EXCEPT !.adpf.initialized_performance_hint_manager = FALSE])
    ELSE w0

\* Monitor(), r.AndroidPerformanceEnabled == 0
MonitorDisabled(w) ==
    IF w.adpf.initialized_performance_hint_manager
    THEN DestroyPerformanceHintManager(
            [w EXCEPT !.adpf.initialized_performance_hint_manager = FALSE])
    ELSE w

----------------------------------------------------------------------------
(* Monitor(): one call per engine tick *)

\* Recorded for an input the tick did not read: a value no input takes
Unread == NO_MAX_FPS - 1
NoTimes == [s \in SessionSet |-> Unread]
NoOutcome == [fid |-> FALSE, session |-> [s \in SessionSet |-> "unread"]]

InitOutcomes ==
    {[fid |-> FALSE, session |-> [s \in SessionSet |-> "null"]]}
    \cup {[fid |-> TRUE, session |-> f] : f \in [SessionSet -> SessionOutcomes]}

NoTick ==
    [ enabled |-> Unread, refreshed |-> FALSE, quality_mode |-> Unread,
      hint_enabled |-> Unread, was_initialized |-> FALSE, init |-> "none",
      out |-> NoOutcome, updated |-> FALSE, max_fps |-> Unread,
      times |-> NoTimes ]

\* The environment a specification lets Monitor() run in
FullEnv ==
    [ enabled |-> {0, 1}, steps |-> ClockSteps, headrooms |-> Headrooms,
      script |-> <<>>, quality_modes |-> {0, 1, 2}, hint_enabled |-> {0, 1},
      outcomes |-> InitOutcomes, max_fps |-> FpsValues,
      times |-> [SessionSet -> ThreadTimes] ]

\* The readings the platform may give at the next refresh: any of
\* E.headrooms, or the next reading of E.script when the environment has one
ReadingsAt(E, n) ==
    IF E.script = <<>> THEN E.headrooms
    ELSE IF n < Len(E.script) THEN {E.script[n + 1]} ELSE {}

Commit(w, t, clock) ==
    /\ adpf' = w.adpf
    /\ jni_refs' = w.jni_refs
    /\ calls' = w.calls
    /\ apply_log' = w.apply_log
    /\ tick' = t
    /\ now' = clock
    /\ refreshes' = IF t.refreshed THEN refreshes + 1 ELSE refreshes
    /\ life' = [life EXCEPT !.failed = @ \/ t.init = "failed"]
    /\ UNCHANGED sel_vars

\* void ADPFManager::Monitor() with r.AndroidPerformanceEnabled != 0
MonitorEnabled(E, current_clock) ==
    LET refresh == current_clock - adpf.last_clock_ >= kThermalHeadroomUpdateThreshold
        needs_init == adpf.support_performance_hint_manager
                      /\ ~adpf.initialized_performance_hint_manager
    IN
    \E quality_mode \in (IF refresh THEN E.quality_modes ELSE {Unread}),
       h \in (IF refresh /\ adpf.get_thermal_headroom_
              THEN ReadingsAt(E, refreshes) ELSE {0}),
       hint_enabled \in E.hint_enabled :
      LET w0 == [World EXCEPT !.adpf.fps_count = @ + 1]
          w1 == IF refresh
                THEN RefreshQuality(w0, current_clock, h, quality_mode)
                ELSE w0
      IN
      \E out \in (IF hint_enabled # 0 /\ needs_init THEN E.outcomes ELSE {NoOutcome}) :
        LET wi == IF hint_enabled # 0 /\ w1.adpf.support_performance_hint_manager
                  THEN HintInitialize(w1, out) ELSE w1
            updating == hint_enabled # 0
                        /\ wi.adpf.support_performance_hint_manager
                        /\ wi.adpf.initialized_performance_hint_manager
        IN
        \E current_max_fps \in (IF updating THEN E.max_fps ELSE {Unread}),
           times \in (IF updating THEN E.times ELSE {NoTimes}) :
          Commit(HintManager(w1, hint_enabled, out, current_max_fps, times),
                 [ enabled |-> 1, refreshed |-> refresh,
                   quality_mode |-> quality_mode,
                   hint_enabled |-> hint_enabled,
                   was_initialized |-> adpf.initialized_performance_hint_manager,
                   init |-> IF out = NoOutcome THEN "none"
                            ELSE IF wi.adpf.initialized_performance_hint_manager
                                 THEN "ok" ELSE "failed",
                   out |-> out, updated |-> updating,
                   max_fps |-> current_max_fps, times |-> times ],
                 current_clock)

\* void ADPFManager::Monitor()
Monitor(E) ==
    \E enabled \in E.enabled, dt \in E.steps :
      /\ now + dt <= MaxClock
      /\ IF enabled = 0
         THEN Commit(MonitorDisabled(World),
                     [NoTick EXCEPT !.enabled = 0,
                        !.was_initialized = adpf.initialized_performance_hint_manager],
                     now + dt)
         ELSE /\ \/ adpf.fps_count < MaxFrames
                 \/ now + dt - adpf.last_clock_ >= kThermalHeadroomUpdateThreshold
              /\ MonitorEnabled(E, now + dt)

\* enum class ThermalStatus, ERROR = -1 .. SHUTDOWN = 6
ThermalStatuses == -1 .. 6
ERROR == -1
NONE == 0
MODERATE == 2
SEVERE == 3

\* void ADPFManager::SetThermalStatus(int32_t i), called by
\* nativeThermalStatusChanged and thermal_callback
SetThermalStatus ==
    \E i \in ThermalStatuses :
      /\ adpf' = [adpf EXCEPT !.thermal_status_ = i]
      /\ UNCHANGED <<now, jni_refs, calls, tick, apply_log, refreshes, life,
                     sel_vars>>

----------------------------------------------------------------------------
(* The singleton's lifetime: static ADPFManager instance in getInstance() *)

\* Mutant: the constructor leaves the hint manager marked unsupported
NewADPFManager_Unsupported(current_clock) ==
    [InitADPF EXCEPT !.obj_power_service_ = FALSE,
                     !.get_thermal_headroom_ = FALSE,
                     !.support_performance_hint_manager = FALSE,
                     !.last_clock_ = current_clock]

\* ADPFManager::ADPFManager(): every handle null, the support flag set,
\* the quality level at the top, last_clock_ = Clock()
NewADPFManager(current_clock) ==
    [InitADPF EXCEPT !.obj_power_service_ = FALSE,
                     !.get_thermal_headroom_ = FALSE,
                     !.last_clock_ = current_clock]

\* Mutant: the destructor deletes the power service reference only
DestroyADPFManager_PowerOnly(w, power_refs) ==
    IF w.adpf.obj_power_service_
    THEN [w |-> Emit(w, Call("DeleteGlobalRef", "power", 0)),
          power_refs |-> power_refs - 1]
    ELSE [w |-> w, power_refs |-> power_refs]

\* ADPFManager::~ADPFManager().  Yields the world and the number of
\* power-service references still alive.
DestroyADPFManager(w, power_refs) ==
    LET w1 == DestroyPerformanceHintManager(w) IN
    IF w1.adpf.obj_power_service_
    THEN [w |-> Emit(w1, Call("DeleteGlobalRef", "power", 0)),
          power_refs |-> power_refs - 1]
    ELSE [w |-> w1, power_refs |-> power_refs]

\* The first getInstance() of a process run constructs the singleton
getInstance ==
    /\ life.phase = "unborn"
    /\ adpf' = NewADPFManager(now)
    /\ calls' = <<>>
    /\ life' = [life EXCEPT !.phase = "constructed", !.failed = FALSE,
                            !.rerun = life.failed]
    /\ UNCHANGED <<now, jni_refs, tick, apply_log, refreshes, sel_vars>>

\* bool ADPFManager::registerListener(), at module startup: ticks are
\* delivered only when it returned true
registerListener ==
    /\ life.phase = "constructed"
    /\ \E mid \in BOOLEAN :
         \E h \in (IF mid THEN {NaN, 800} ELSE {0}) :
           /\ adpf' = InitializePowerManager(adpf, mid, h)
           /\ calls' = IF mid THEN <<Call("getThermalHeadroom", "power", 0)>>
                       ELSE <<>>
           /\ life' = [life EXCEPT !.power_refs = @ + 1,
                          !.phase = IF mid /\ ~IsNaN(h) THEN "running" ELSE "idle"]
    /\ UNCHANGED <<now, jni_refs, tick, apply_log, refreshes, sel_vars>>

\* bool ADPFManager::unregisterListener(), at module shutdown
unregisterListener ==
    /\ life.phase = "running"
    /\ life' = [life EXCEPT !.phase = "idle"]
    /\ calls' = <<>>
    /\ UNCHANGED <<adpf, now, jni_refs, tick, apply_log, refreshes, sel_vars>>

\* The end of a process run: the static instance is destroyed
Exit ==
    /\ life.phase # "unborn"
    /\ LET r == DestroyADPFManager(World, life.power_refs) IN
       /\ adpf' = r.w.adpf
       /\ jni_refs' = r.w.jni_refs
       /\ calls' = r.w.calls
       /\ apply_log' = r.w.apply_log
       /\ life' = [life EXCEPT !.phase = "unborn", !.power_refs = r.power_refs]
    /\ UNCHANGED <<now, tick, refreshes, sel_vars>>

----------------------------------------------------------------------------
(* Thermal providers and CreateThermalProvider() *)

Variants == {"native", "jni", "samsung"}

\* android_get_device_api_level() values worth telling apart
ApiLevels == 27..32

\* What the platform answers to each candidate's Init()
NativeAnswers == [acquire : BOOLEAN, headroom : {NaN, 800}, register : BOOLEAN]
JNIAnswers == [method : BOOLEAN, headroom : {NaN, 800}, acquire : BOOLEAN,
               register : BOOLEAN]
SamsungAnswers == [available : BOOLEAN]

Devices == [api_level : ApiLevels, native : NativeAnswers, jni : JNIAnswers,
            samsung : SamsungAnswers]

DefaultDevice ==
    [ api_level |-> 31,
      native |-> [acquire |-> TRUE, headroom |-> 800, register |-> TRUE],
      jni |-> [method |-> TRUE, headroom |-> 800, acquire |-> TRUE,
               register |-> TRUE],
      samsung |-> [available |-> TRUE] ]

\* A provider object right after operator new: Init() has not run yet,
\* thermal_manager_ holds whatever the allocation left there.
NewProvider(garbage) ==
    [ is_available_ |-> FALSE, thermal_manager_ |-> garbage,
      obj_power_service_ |-> FALSE, thermal_status_ |-> Unread ]

\* The result of a constructor: the object and the platform state
Built(obj, th, ok) == [obj |-> [obj EXCEPT !.is_available_ = ok], thermal |-> th]

\* bool AndroidNativeProvider::Init(), through the constructor
AndroidNativeProvider(obj, th, a) ==
    LET o1 == [obj EXCEPT !.thermal_status_ = NONE,
                          !.thermal_manager_ = IF a.acquire THEN "held" ELSE "null"]
        t1 == IF a.acquire THEN [th EXCEPT !.managers = @ \cup {"native"}] ELSE th
    IN  IF ~a.acquire THEN Built(o1, t1, FALSE)
        ELSE IF IsNaN(a.headroom) THEN Built(o1, t1, FALSE)
        ELSE IF ~a.register THEN Built(o1, t1, FALSE)
        ELSE Built(o1, [t1 EXCEPT !.listeners = @ \cup {"native"}], TRUE)

\* bool AndroidJNIProvider::Init(), through the constructor
AndroidJNIProvider(obj, th, a) ==
    LET o1 == [obj EXCEPT !.thermal_status_ = NONE, !.obj_power_service_ = TRUE]
        t1 == [th EXCEPT !.power_refs = @ \cup {"jni"}]
        o2 == [o1 EXCEPT !.thermal_manager_ = IF a.acquire THEN "held" ELSE "null"]
        t2 == IF a.acquire THEN [t1 EXCEPT !.managers = @ \cup {"jni"}] ELSE t1
    IN  IF ~a.method THEN Built(o1, t1, FALSE)
        ELSE IF ~a.acquire THEN Built(o2, t2, FALSE)
        ELSE IF ~a.register THEN Built(o2, t2, FALSE)
        ELSE Built(o2, [t2 EXCEPT !.listeners = @ \cup {"jni"}], TRUE)

\* Mutant: availability depends on what the memory of the new object held
SamsungProvider_FreshOnly(obj, th, a) ==
    Built(obj, th, a.available /\ obj.thermal_manager_ = "null")

\* bool SamsungProvider::Init(), through the constructor
SamsungProvider(obj, th, a) == Built(obj, th, a.available)

Construct(v, obj, th) ==
    CASE v = "native"  -> AndroidNativeProvider(obj, th, device.native)
      [] v = "jni"     -> AndroidJNIProvider(obj, th, device.jni)
      [] v = "samsung" -> SamsungProvider(obj, th, device.samsung)

\* Mutant: the manager is released first, the callback unregistered after
ReleaseThermalManager_ReleaseFirst(v, obj, th) ==
    IF obj.thermal_manager_ = "null" THEN th
    ELSE IF obj.thermal_manager_ = "held"
    THEN [th EXCEPT !.listeners = @ \ {v}, !.managers = @ \ {v},
                    !.log = @ \o <<Call("releaseManager", v, 0),
                                   Call("unregisterThermalStatusListener", v, 0)>>]
    ELSE [th EXCEPT !.invalid_use = TRUE]

\* if (thermal_manager_) { UnregisterCallback(...); AThermal_releaseManager(...); }
ReleaseThermalManager(v, obj, th) ==
    IF obj.thermal_manager_ = "null" THEN th
    ELSE IF obj.thermal_manager_ = "held"
    THEN [th EXCEPT !.listeners = @ \ {v}, !.managers = @ \ {v},
                    !.log = @ \o <<Call("unregisterThermalStatusListener", v, 0),
                                   Call("releaseManager", v, 0)>>]
    ELSE [th EXCEPT !.invalid_use = TRUE]

\* Mutant: the destructor releases nothing
DestroyNativeProvider_Leak(obj, th) == th

\* AndroidNativeProvider::~AndroidNativeProvider()
DestroyNativeProvider(obj, th) == ReleaseThermalManager("native", obj, th)

\* AndroidJNIProvider::~AndroidJNIProvider()
DestroyJNIProvider(obj, th) ==
    LET t1 == IF obj.obj_power_service_
              THEN [th EXCEPT !.power_refs = @ \ {"jni"}] ELSE th
    IN  ReleaseThermalManager("jni", obj, t1)

\* SamsungProvider::~SamsungProvider()
DestroySamsungProvider(obj, th) == th

Destruct(v, obj, th) ==
    CASE v = "native"  -> DestroyNativeProvider(obj, th)
      [] v = "jni"     -> DestroyJNIProvider(obj, th)
      [] v = "samsung" -> DestroySamsungProvider(obj, th)

\* CreateThermalProvider(): the version precondition of each candidate
MinApiLevel(v) ==
    CASE v = "native" -> 31 [] v = "jni" -> 30 [] v = "samsung" -> 28

\* Mutant: the JNI candidate is left out of the order
NextCandidate_SkipsJNI(v) ==
    CASE v = "native" -> "samsung" [] v = "jni" -> "samsung" [] v = "samsung" -> "none"

\* CreateThermalProvider(): the candidate order; "none" is return nullptr
FirstCandidate == "native"
NextCandidate(v) ==
    CASE v = "native" -> "jni" [] v = "jni" -> "samsung" [] v = "samsung" -> "none"

InitSel ==
    [ pc |-> "probe", candidate |-> FirstCandidate, objects |-> <<>>,
      constructed |-> {}, selected |-> "none", returned |-> <<>> ]

\* No status callback running, GetThermalStatus() not called yet
InitPush ==
    [ pending |-> Unread, reading |-> FALSE, got |-> Unread, last |-> Unread ]

\* static TArray<ThermalCallback*> g_callbacks, empty; the GameSDK at
\* warning level 0; no warning being dispatched on the GameSDK's thread, no
\* RegisterCallback / UnregisterCallback in progress on the game thread
InitSamsung ==
    [ g_callbacks |-> <<>>, fatal |-> FALSE, level |-> 0, levels |-> <<>>,
      dispatched |-> <<>>, polled |-> <<>>, headroom |-> [raw |-> Unread, value |-> 0],
      removed |-> [callback |-> "none", before |-> <<>>],
      warning |-> [level |-> Unread, seen |-> <<>>, raced |-> FALSE],
      changing |-> [op |-> "none", callback |-> "none"],
      delivered |-> <<>> ]

InitThermal ==
    [ managers |-> {}, listeners |-> {}, power_refs |-> {}, invalid_use |-> FALSE,
      log |-> <<>> ]

\* A run in which the module has started: the singleton is constructed,
\* registerListener() has taken its power-service reference and ticks arrive
Running ==
    [ phase |-> "running", power_refs |-> 1, failed |-> FALSE, rerun |-> FALSE ]

Advance(s, v) ==
    IF NextCandidate(v) = "none"
    THEN [s EXCEPT !.pc = "done", !.candidate = "none",
                   !.returned = Append(@, "none")]
    ELSE [s EXCEPT !.pc = "probe", !.candidate = NextCandidate(v)]

\* if (android_get_device_api_level() >= N) { auto provider = MakeUnique<V>();
Probe ==
    /\ sel.pc = "probe"
    /\ LET v == sel.candidate IN
       IF device.api_level >= MinApiLevel(v)
       THEN \E garbage \in {"null", "garbage"} :
              LET b == Construct(v, NewProvider(garbage), thermal) IN
              /\ sel' = [sel EXCEPT !.pc = "built",
                                    !.objects = (v :> b.obj),
                                    !.constructed = @ \cup {v}]
              /\ thermal' = b.thermal
       ELSE /\ sel' = Advance(sel, v)
            /\ UNCHANGED thermal
    /\ UNCHANGED <<device, mgr_vars, push, samsung>>

\* if (provider->IsAvailable()) return provider; } -- else the unique
\* pointer goes out of scope and the candidate is destroyed
Decide ==
    /\ sel.pc = "built"
    /\ LET v == sel.candidate
           obj == sel.objects[v]
       IN  IF obj.is_available_
           THEN /\ sel' = [sel EXCEPT !.pc = "done", !.selected = v,
                                      !.returned = Append(@, v)]
                /\ UNCHANGED thermal
           ELSE LET th == Destruct(v, obj, thermal) IN
                /\ thermal' = th
                /\ \/ sel' = [Advance(sel, v) EXCEPT !.objects = <<>>]
                   \/ /\ th.invalid_use /\ ~thermal.invalid_use
                      /\ sel' = [sel EXCEPT !.pc = "crashed", !.objects = <<>>]
    /\ UNCHANGED <<device, mgr_vars, push, samsung>>

CreateThermalProvider == Probe \/ Decide

\* The owner lets go of the provider it was given (TUniquePtr<IProvider>):
\* the provider's destructor runs
DestroySelected ==
    /\ sel.pc = "done" /\ sel.selected # "none"
    /\ push.pending = Unread /\ ~push.reading
    /\ thermal' = Destruct(sel.selected, sel.objects[sel.selected], thermal)
    /\ sel' = [sel EXCEPT !.pc = "destroyed", !.objects = <<>>]
    /\ UNCHANGED <<device, mgr_vars, push, samsung>>

\* CreateThermalProvider() is called again, on the same device, with
\* whatever the earlier call left behind on the platform
Reselect ==
    /\ \/ sel.pc = "destroyed"
       \/ sel.pc = "done" /\ sel.selected = "none"
    /\ Len(sel.returned) < MaxRuns
    /\ sel' = [InitSel EXCEPT !.returned = sel.returned]
    /\ UNCHANGED <<device, thermal, mgr_vars, push, samsung>>

----------------------------------------------------------------------------
(* The native and the JNI provider in use: status callback and reads *)

PushInUse ==
    /\ sel.pc = "done" /\ sel.selected \in {"native", "jni"}
    /\ sel.selected \in thermal.listeners

\* The platform enters ThermalStatusCallback(data, status) on its own thread
ThermalStatusCallback ==
    /\ PushInUse /\ push.pending = Unread
    /\ \E status \in ThermalStatuses : push' = [push EXCEPT !.pending = status]
    /\ UNCHANGED <<device, sel, thermal, mgr_vars, samsung>>

\* Mutant: the callback stores a status only when it is worse than the
\* cached one
StoreThermalStatus_KeepsWorst ==
    /\ push.pending # Unread
    /\ sel' = [sel EXCEPT !.objects[sel.selected].thermal_status_ =
                              IF push.pending > @ THEN push.pending ELSE @]
    /\ push' = [push EXCEPT !.last = push.pending, !.pending = Unread]
    /\ UNCHANGED <<device, thermal, mgr_vars, samsung>>

\* static_cast<Provider*>(data)->thermal_status_ = (ThermalStatus)status,
\* and the callback returns
StoreThermalStatus ==
    /\ push.pending # Unread
    /\ sel' = [sel EXCEPT !.objects[sel.selected].thermal_status_ = push.pending]
    /\ push' = [push EXCEPT !.last = push.pending, !.pending = Unread]
    /\ UNCHANGED <<device, thermal, mgr_vars, samsung>>

\* The tick thread enters GetThermalStatus()
GetThermalStatus ==
    /\ PushInUse /\ ~push.reading
    /\ push' = [push EXCEPT !.reading = TRUE]
    /\ UNCHANGED <<device, sel, thermal, mgr_vars, samsung>>

\* return thermal_status_
LoadThermalStatus ==
    /\ push.reading
    /\ push' = [push EXCEPT !.reading = FALSE,
                            !.got = sel.objects[sel.selected].thermal_status_]
    /\ UNCHANGED <<device, sel, thermal, mgr_vars, samsung>>

----------------------------------------------------------------------------
(* The Samsung provider in use *)

\* Mutant: the warning level is taken for the status ordinal
ToThermalStatus_Ordinal(warning_level) ==
    IF warning_level \in {0, 1, 2}
    THEN [status |-> warning_level, fatal |-> FALSE]
    ELSE IF warning_level = -999 THEN [status |-> ERROR, fatal |-> FALSE]
    ELSE [status |-> ERROR, fatal |-> TRUE]

\* ThermalStatus ToThermalStatus(int warning_level); fatal is checkNoEntry()
ToThermalStatus(warning_level) ==
    CASE warning_level = 0    -> [status |-> NONE, fatal |-> FALSE]
      [] warning_level = 1    -> [status |-> MODERATE, fatal |-> FALSE]
      [] warning_level = 2    -> [status |-> SEVERE, fatal |-> FALSE]
      [] warning_level = -999 -> [status |-> ERROR, fatal |-> FALSE]
      [] OTHER                -> [status |-> ERROR, fatal |-> TRUE]

\* Warning levels the GameSDK may hand over: the documented ones, the error
\* value, and one outside the documented range
WarningLevels == {0, 1, 2, -999, 3}

\* The functions a client may pass as ThermalCallback
Callbacks == {"cb1", "cb2"}

\* Raw GetHighPrecisionTemp() readings of the GameSDK, in tenths
RawTemps == {-10, -1, 0, 1, 50, 99, 100, 101, 150}

\* double FJavaSamsungGameSDK::GetHighPrecisionTemp(): raw is what the Java
\* method returns, in tenths; the result is in thousandths
GetHighPrecisionTemp(method, raw) ==
    IF ~method THEN 0
    ELSE LET ret == (raw * 1000) \div (10 * 10) IN
         IF ret >= 1000 \/ ret < 0 THEN 0 ELSE ret

\* g_callbacks.Find(callback): the first index, 0 for INDEX_NONE
Find(g, callback) ==
    IF \E i \in DOMAIN g : g[i] = callback
    THEN CHOOSE i \in DOMAIN g :
            g[i] = callback /\ \A j \in 1 .. i - 1 : g[j] # callback
    ELSE 0

\* g_callbacks.RemoveAt(index)
RemoveAt(g, index) ==
    [i \in 1 .. Len(g) - 1 |-> IF i < index THEN g[i] ELSE g[i + 1]]

\* Mutant: an unknown callback is ignored, a known one removed
UnregisterCallback_Silent(g, callback) ==
    IF Find(g, callback) = 0 THEN [g_callbacks |-> g, fatal |-> FALSE]
    ELSE [g_callbacks |-> RemoveAt(g, Find(g, callback)), fatal |-> FALSE]

\* void SamsungProvider::UnregisterCallback(ThermalCallback callback)
UnregisterCallback(g, callback) ==
    IF Find(g, callback) = 0 THEN [g_callbacks |-> g, fatal |-> TRUE]
    ELSE [g_callbacks |-> RemoveAt(g, Find(g, callback)), fatal |-> FALSE]

SamsungInUse ==
    sel.pc = "done" /\ sel.selected = "samsung" /\ ~samsung.fatal

\* bool SamsungProvider::RegisterCallback(ThermalCallback callback)
SamsungRegisterCallback(early) ==
    /\ SamsungInUse /\ Len(samsung.g_callbacks) < MaxRegistered
    /\ early => samsung.levels = <<>>
    /\ \E callback \in Callbacks :
         samsung' = [samsung EXCEPT !.g_callbacks = Append(@, callback)]
    /\ UNCHANGED <<device, sel, thermal, mgr_vars, push>>

SamsungUnregisterCallback ==
    /\ SamsungInUse
    /\ \E callback \in Callbacks :
         LET r == UnregisterCallback(samsung.g_callbacks, callback) IN
         samsung' = [samsung EXCEPT
                        !.g_callbacks = r.g_callbacks, !.fatal = r.fatal,
                        !.removed = [callback |-> callback,
                                     before |-> samsung.g_callbacks]]
    /\ UNCHANGED <<device, sel, thermal, mgr_vars, push>>

\* Java_com_samsung_android_SamsungGameSDK_nativeOnHighTempWarning: the
\* GameSDK reports a warning level out of L
nativeOnHighTempWarning(L) ==
    /\ SamsungInUse /\ Len(samsung.levels) < MaxWarnings
    /\ \E warning_level \in L :
         LET r == ToThermalStatus(warning_level) IN
         samsung' = [samsung EXCEPT
            !.level = warning_level, !.fatal = r.fatal,
            !.levels = Append(@, warning_level),
            !.dispatched = Append(@,
                IF r.fatal THEN <<>>
                ELSE [i \in DOMAIN samsung.g_callbacks |->
                        [callback |-> samsung.g_callbacks[i],
                         status |-> r.status]])]
    /\ UNCHANGED <<device, sel, thermal, mgr_vars, push>>

\* ThermalStatus SamsungProvider::GetThermalStatus() const: at most one
\* poll is kept for each level the GameSDK has been at
SamsungGetThermalStatus ==
    /\ SamsungInUse /\ Len(samsung.polled) <= Len(samsung.levels)
    /\ LET r == ToThermalStatus(samsung.level) IN
       samsung' = [samsung EXCEPT
                      !.fatal = r.fatal,
                      !.polled = Append(@, [level |-> samsung.level,
                                            status |-> r.status])]
    /\ UNCHANGED <<device, sel, thermal, mgr_vars, push>>

\* float SamsungProvider::GetThermalHeadroom(int forecast_seconds) const
SamsungGetThermalHeadroom ==
    /\ SamsungInUse
    /\ \E method \in BOOLEAN, raw \in RawTemps :
         samsung' = [samsung EXCEPT
                        !.headroom = [raw |-> IF method THEN raw ELSE Unread,
                                      value |-> GetHighPrecisionTemp(method, raw)]]
    /\ UNCHANGED <<device, sel, thermal, mgr_vars, push>>

----------------------------------------------------------------------------
(* The Samsung registry under two threads: the GameSDK's thread runs the  *)
(* foreign entry point, the game thread registers and unregisters.  Each  *)
(* operation is entered and left in separate steps; nothing in the source *)
(* makes one wait for the other.                                          *)

\* SamsungGameSDK.onHighTempWarning stores the level and calls
\* nativeOnHighTempWarning, which begins `for (auto c : g_callbacks)`
EnterHighTempWarning ==
    /\ SamsungInUse /\ samsung.warning.level = Unread
    /\ \E warning_level \in {1, 2} :
         samsung' = [samsung EXCEPT
            !.level = warning_level,
            !.warning = [level |-> warning_level, seen |-> samsung.g_callbacks,
                         raced |-> samsung.changing.op # "none"]]
    /\ UNCHANGED <<device, sel, thermal, mgr_vars, push>>

\* for (auto c : g_callbacks) c(nullptr, status), over the array g
Delivery(status, g) ==
    [i \in DOMAIN g |-> [callback |-> g[i], status |-> status]]

\* The loop of nativeOnHighTempWarning ends.  When the array was changed
\* under the loop the behaviour is undefined: the loop ran over the array
\* as it was, over the array as it is now, or the process died.
LeaveHighTempWarning ==
    /\ SamsungInUse /\ samsung.warning.level # Unread
    /\ LET r == ToThermalStatus(samsung.warning.level)
           idle == [level |-> Unread, seen |-> <<>>, raced |-> FALSE]
       IN  \/ samsung' = [samsung EXCEPT
                 !.warning = idle,
                 !.delivered = Delivery(r.status, samsung.g_callbacks)]
           \/ /\ samsung.warning.raced
              /\ \/ samsung' = [samsung EXCEPT
                       !.warning = idle,
                       !.delivered = Delivery(r.status, samsung.warning.seen)]
                 \/ samsung' = [samsung EXCEPT !.warning = idle, !.fatal = TRUE]
    /\ UNCHANGED <<device, sel, thermal, mgr_vars, push>>

\* The game thread enters RegisterCallback (op "push") or
\* UnregisterCallback (op "remove")
EnterRegistryChange ==
    /\ SamsungInUse /\ samsung.changing.op = "none"
    /\ \E op \in {"push", "remove"}, callback \in Callbacks :
         /\ op = "push" => Len(samsung.g_callbacks) < MaxRegistered
         /\ samsung' = [samsung EXCEPT
               !.changing = [op |-> op, callback |-> callback],
               !.warning.raced = @ \/ samsung.warning.level # Unread]
    /\ UNCHANGED <<device, sel, thermal, mgr_vars, push>>

\* g_callbacks.Push(callback), or Find and RemoveAt, and the function returns
LeaveRegistryChange ==
    /\ SamsungInUse /\ samsung.changing.op # "none"
    /\ LET c == samsung.changing
           r == IF c.op = "push"
                THEN [g_callbacks |-> Append(samsung.g_callbacks, c.callback),
                      fatal |-> FALSE]
                ELSE UnregisterCallback(samsung.g_callbacks, c.callback)
       IN  samsung' = [samsung EXCEPT
              !.g_callbacks = r.g_callbacks, !.fatal = r.fatal,
              !.changing = [op |-> "none", callback |-> "none"]]
    /\ UNCHANGED <<device, sel, thermal, mgr_vars, push>>

----------------------------------------------------------------------------
(* Specifications *)

Init ==
    /\ adpf = InitADPF
    /\ now = 0
    /\ jni_refs = {}
    /\ calls = <<>>
    /\ tick = NoTick
    /\ apply_log = <<>>
    /\ refreshes = 0
    /\ device = DefaultDevice
    /\ sel = InitSel
    /\ thermal = InitThermal
    /\ life = Running
    /\ push = InitPush
    /\ samsung = InitSamsung

\* The whole manager: every environment, every tick
Next == Monitor(FullEnv)
Spec == Init /\ [][Next]_vars

\* The thermal / quality path of Monitor(), hint sessions switched off
QualityEnv == [FullEnv EXCEPT !.hint_enabled = {0}]
NextQuality == Monitor(QualityEnv)
SpecQuality == Init /\ [][NextQuality]_vars

\* The hint-session path of Monitor(): the ticks of one refresh window
HintEnv == [FullEnv EXCEPT !.steps = {0}]
NextHint == Monitor(HintEnv)
SpecHint == Init /\ [][NextHint]_vars

\* The headroom policy on a scripted series of readings, one per refresh
Scenario == <<960, 800, 600, 970>>
ScenarioEnv ==
    [FullEnv EXCEPT !.enabled = {1}, !.script = Scenario,
                    !.quality_modes = {1},
                    !.outcomes = {[fid |-> TRUE,
                                   session |-> [s \in SessionSet |-> "ok"]]},
                    !.max_fps = {30, 60},
                    !.times = {[s \in SessionSet |-> 3]}]
NextScenario == Monitor(ScenarioEnv)
SpecScenario == Init /\ [][NextScenario]_vars

AllCreated == [fid |-> TRUE, session |-> [s \in SessionSet |-> "ok"]]
NotSupported == [fid |-> FALSE, session |-> [s \in SessionSet |-> "null"]]
NoRHISession == [AllCreated EXCEPT !.session["rhi"] = "null"]
Times(g, r, h) == [s \in SessionSet |->
                     CASE s = "game" -> g [] s = "render" -> r [] s = "rhi" -> h]

\* Refreshes and hint sessions together, on a few answers of each kind
TickEnv ==
    [FullEnv EXCEPT !.steps = {7, 15}, !.headrooms = {600, 970},
                    !.quality_modes = {0, 1},
                    !.outcomes = {AllCreated, NotSupported, NoRHISession},
                    !.max_fps = {0, 30},
                    !.times = {Times(3, 3, 3), Times(0, 3, 5), Times(3, 0, 0)}]
NextTick == Monitor(TickEnv)
SpecTick == Init /\ [][NextTick]_vars

\* A manager whose registerListener() may not have found a thermal source
DegradedEnv ==
    [TickEnv EXCEPT !.enabled = {1}, !.quality_modes = {0, 1, 2},
                    !.outcomes = {AllCreated}, !.max_fps = {30}]
InitDegraded ==
    /\ adpf \in {InitializePowerManager(
                    [InitADPF EXCEPT !.get_thermal_headroom_ = FALSE], mid, h) :
                  mid \in BOOLEAN, h \in {NaN, 800}}
    /\ now = 0
    /\ jni_refs = {}
    /\ calls = <<>>
    /\ tick = NoTick
    /\ apply_log = <<>>
    /\ refreshes = 0
    /\ device = DefaultDevice
    /\ sel = InitSel
    /\ thermal = InitThermal
    /\ life = Running
    /\ push = InitPush
    /\ samsung = InitSamsung
NextDegraded == Monitor(DegradedEnv)
SpecDegraded == InitDegraded /\ [][NextDegraded]_vars

\* The status listener running beside Monitor()
StatusEnv ==
    [FullEnv EXCEPT !.enabled = {1}, !.steps = {0, 15}, !.headrooms = {600, 970},
                    !.quality_modes = {1, 2}, !.hint_enabled = {0}]
NextStatus == Monitor(StatusEnv) \/ SetThermalStatus
SpecStatus == Init /\ [][NextStatus]_vars

\* The target duration for a range of max fps settings, all sessions created
FpsRange == (-2 .. 36) \cup {45, 60, 72, 90, 120, 144, 240}
FpsEnv ==
    [FullEnv EXCEPT !.enabled = {1}, !.steps = {0}, !.hint_enabled = {1},
                    !.outcomes = {AllCreated}, !.max_fps = FpsRange,
                    !.times = {Times(3, 3, 3)}]
NextFps == Monitor(FpsEnv)
SpecFps == Init /\ [][NextFps]_vars

\* Provider selection at startup, on every device
InitSelect ==
    /\ adpf = InitADPF
    /\ now = 0
    /\ jni_refs = {}
    /\ calls = <<>>
    /\ tick = NoTick
    /\ apply_log = <<>>
    /\ refreshes = 0
    /\ device \in Devices
    /\ sel = InitSel
    /\ thermal = InitThermal
    /\ life = Running
    /\ push = InitPush
    /\ samsung = InitSamsung
NextSelect == Probe \/ Decide
SpecSelect == InitSelect /\ [][NextSelect]_vars

\* Process runs one after another: construction, module startup, ticks of
\* one refresh window, module shutdown, exit
LifeEnv ==
    [HintEnv EXCEPT !.outcomes = {AllCreated, NotSupported, NoRHISession},
                    !.max_fps = {30}, !.times = {Times(3, 3, 3)}]
InitLife ==
    /\ adpf = NewADPFManager(0)
    /\ now = 0
    /\ jni_refs = {}
    /\ calls = <<>>
    /\ tick = NoTick
    /\ apply_log = <<>>
    /\ refreshes = 0
    /\ device = DefaultDevice
    /\ sel = InitSel
    /\ thermal = InitThermal
    /\ life = [Running EXCEPT !.phase = "constructed", !.power_refs = 0]
    /\ push = InitPush
    /\ samsung = InitSamsung
NextLife ==
    \/ getInstance
    \/ registerListener
    \/ life.phase = "running" /\ Monitor(LifeEnv)
    \/ unregisterListener
    \/ Exit
SpecLife == InitLife /\ [][NextLife]_vars

\* Selection, the returned provider's destruction, and selection again
NextReselect == Probe \/ Decide \/ DestroySelected \/ Reselect
SpecReselect == InitSelect /\ [][NextReselect]_vars

\* A native (API 31) or JNI (API 30) provider in use: the platform's
\* callback thread beside the tick thread
InitPushed ==
    /\ InitSelect
    /\ device \in {DefaultDevice, [DefaultDevice EXCEPT !.api_level = 30]}
NextPushed ==
    \/ Probe \/ Decide
    \/ ThermalStatusCallback \/ StoreThermalStatus
    \/ GetThermalStatus \/ LoadThermalStatus
SpecPushed == InitPushed /\ [][NextPushed]_vars

\* A device on which only the Samsung provider is available
SamsungDevice == [DefaultDevice EXCEPT !.api_level = 29]
InitSamsungDevice == InitSelect /\ device = SamsungDevice

\* The Samsung provider's warning levels, polled and dispatched, with the
\* callbacks registered before the first warning
NextWarnings ==
    \/ Probe \/ Decide
    \/ SamsungRegisterCallback(TRUE)
    \/ nativeOnHighTempWarning(WarningLevels)
    \/ SamsungGetThermalStatus
SpecWarnings == InitSamsungDevice /\ [][NextWarnings]_vars

\* The Samsung provider's callback registry
NextRegistry ==
    \/ Probe \/ Decide
    \/ SamsungRegisterCallback(FALSE)
    \/ SamsungUnregisterCallback
    \/ SamsungGetThermalStatus
SpecRegistry == InitSamsungDevice /\ [][NextRegistry]_vars

\* The Samsung provider's registry with the GameSDK's thread beside the
\* game thread
NextDispatch ==
    \/ Probe \/ Decide
    \/ EnterHighTempWarning \/ LeaveHighTempWarning
    \/ EnterRegistryChange \/ LeaveRegistryChange
SpecDispatch == InitSamsungDevice /\ [][NextDispatch]_vars

\* The Samsung provider's headroom readings
NextHeadroom ==
    \/ Probe \/ Decide
    \/ SamsungRegisterCallback(FALSE)
    \/ SamsungGetThermalStatus
    \/ SamsungGetThermalHeadroom
SpecHeadroom == InitSamsungDevice /\ [][NextHeadroom]_vars

----------------------------------------------------------------------------
(* Claims *)

CallsOf(cs, op) == {i \in DOMAIN cs : cs[i].op = op}
CountCalls(cs, op) == Cardinality(CallsOf(cs, op))

\* C1: in every tick SetQualityLevels is called exactly once when the target
\* quality level the tick ends with differs from the current level the tick
\* started with, and not at all otherwise.
C1_ApplyOncePerChange ==
    [][ LET n == IF adpf'.target_quality_level # adpf.current_quality_level
                 THEN 1 ELSE 0
        IN  /\ CountCalls(calls', "SetQualityLevels") = n
            /\ Len(apply_log') = Len(apply_log) + n ]_vars

\* A tick that changed the level a second time, with its single call
C1_Witness ==
    /\ tick.refreshed
    /\ CountCalls(calls, "SetQualityLevels") = 1
    /\ Len(apply_log) >= 2

\* The level the headroom policy's table gives for a reading
PolicyLevel(h) ==
    CHOOSE l \in 0..3 :
        \/ l = 3 /\ h < 750
        \/ l = 2 /\ 750 <= h /\ h < 850
        \/ l = 1 /\ 850 <= h /\ h < 950
        \/ l = 0 /\ h >= 950

\* C2: after a refresh under the headroom policy (quality mode 1) the target
\* level is the one the breakpoint table gives for the reading: 3 below
\* 0.75, 2 in [0.75, 0.85), 1 in [0.85, 0.95), 0 from 0.95 up; every reading
\* yields a level in 0..3.
C2_HeadroomPolicy ==
    (tick.refreshed /\ tick.quality_mode = 1) =>
        /\ adpf.target_quality_level \in 0..3
        /\ ~IsNaN(adpf.thermal_headroom_) =>
               adpf.target_quality_level = PolicyLevel(adpf.thermal_headroom_)

\* The boundary reading 0.85 has been mapped to level 1
C2_Witness ==
    /\ tick.refreshed /\ tick.quality_mode = 1
    /\ adpf.thermal_headroom_ = 850
    /\ adpf.target_quality_level = 1

\* C3 as stated: the readings 0.96, 0.80, 0.60, 0.97 give the calls 0, 1, 3, 0
C3_Original == refreshes = Len(Scenario) => apply_log = <<0, 1, 3, 0>>

\* C3: from the initial state, under the headroom policy, the readings 0.96,
\* 0.80, 0.60, 0.97 (one per refresh) give exactly four SetQualityLevels
\* calls, with the arguments 0, 2, 3, 0 in that order.
C3_ScenarioLevels ==
    apply_log = SubSeq(<<0, 2, 3, 0>>, 1, refreshes)

\* All four readings taken and all four calls made
C3_Witness == refreshes = Len(Scenario) /\ Len(apply_log) = 4

NoHandleHeld ==
    /\ jni_refs = {}
    /\ ~adpf.obj_perfhint_service_
    /\ \A s \in SessionSet : ~adpf.obj_perfhint_session_[s]

\* C4: once support_performance_hint_manager is false it stays false, and
\* no later tick calls InitializePerformanceHintManager, whatever the hint
\* flag and the master flag do.
C4_StickyDisable ==
    [][ ~adpf.support_performance_hint_manager =>
            /\ ~adpf'.support_performance_hint_manager
            /\ CountCalls(calls', "InitializePerformanceHintManager") = 0 ]_vars

\* After a failed initialization, a tick with both flags on that did not
\* initialize
C4_Witness ==
    /\ ~adpf.support_performance_hint_manager
    /\ tick.enabled = 1 /\ tick.hint_enabled = 1
    /\ tick.init = "none"

\* A report or update method of a created session did not resolve
ResolveFailed(out) ==
    \E s \in SessionSet : out.session[s] \in {"no_report", "no_update", "no_methods"}

\* C5: when a report or update method of a session fails to resolve during
\* InitializePerformanceHintManager, the initialization fails, the support
\* flag is cleared, and after the tick no session handle and no hint-service
\* handle is held, whichever sessions had been created.
C5_FailedInitTearsDown ==
    (tick.init # "none" /\ ResolveFailed(tick.out)) =>
        /\ tick.init = "failed"
        /\ ~adpf.support_performance_hint_manager
        /\ ~adpf.initialized_performance_hint_manager
        /\ NoHandleHeld

\* Two sessions were created, the third one's update method was missing
C5_Witness ==
    /\ tick.init = "failed"
    /\ tick.out.session = [s \in SessionSet |->
                              IF s = "rhi" THEN "no_update" ELSE "ok"]
    /\ CountCalls(calls, "DeleteGlobalRef") = 4
    /\ NoHandleHeld

ReportedSessions(cs) ==
    {cs[i].obj : i \in CallsOf(cs, "reportActualWorkDuration")}

\* C6 as stated: the same max fps in two consecutive updating ticks means no
\* updateTargetWorkDuration call in the second, while durations are reported
C6_Original ==
    [][ (tick.updated /\ tick'.updated /\ tick'.max_fps = tick.max_fps) =>
            /\ CountCalls(calls', "updateTargetWorkDuration") = 0
            /\ ReportedSessions(calls') # {} ]_vars

\* C6: if two consecutive ticks both run the update logic with the same max
\* fps and the first tick's game thread time was positive, the second tick
\* issues no updateTargetWorkDuration call, and still reports the actual
\* duration to every session that holds a handle (to the game session only
\* when its thread time is positive).
C6_NoPushWhenFpsUnchanged ==
    [][ (/\ tick.updated /\ tick.times["game"] > 0
         /\ tick'.updated /\ tick'.max_fps = tick.max_fps) =>
            /\ CountCalls(calls', "updateTargetWorkDuration") = 0
            /\ ReportedSessions(calls') =
                   {s \in SessionSet :
                       /\ adpf'.obj_perfhint_session_[s]
                       /\ s = "game" => tick'.times["game"] > 0} ]_vars

\* A tick on an already Active manager, max fps 30 as cached by the tick
\* before: three reports, no target update
C6_Witness ==
    /\ tick.updated /\ tick.was_initialized /\ tick.init = "none"
    /\ tick.max_fps = 30
    /\ CountCalls(calls, "updateTargetWorkDuration") = 0
    /\ ReportedSessions(calls) = SessionSet

\* The candidate the claimed order selects on this device
Precondition(v) ==
    CASE v = "native"  -> device.api_level >= 31
      [] v = "jni"     -> device.api_level >= 30
      [] v = "samsung" -> device.api_level >= 28
SelfTest(v) == Construct(v, NewProvider("null"), InitThermal).obj.is_available_
Passes(v) == Precondition(v) /\ SelfTest(v)
Expected ==
    IF Passes("native") THEN "native"
    ELSE IF Passes("jni") THEN "jni"
    ELSE IF Passes("samsung") THEN "samsung"
    ELSE "none"

\* C7: CreateThermalProvider returns the first of native (API >= 31), JNI
\* (>= 30), Samsung (>= 28) whose precondition holds and whose self-test
\* passes, and nullptr exactly when none does.
C7_FirstAvailable == sel.pc = "done" => sel.selected = Expected

\* Samsung returned after the native and the JNI candidate were discarded
C7_Witness ==
    /\ sel.pc = "done" /\ sel.selected = "samsung"
    /\ sel.constructed = Variants

Existing == DOMAIN sel.objects

\* C8: a candidate whose version precondition fails is never constructed;
\* at most the candidate being probed exists; a discarded candidate is
\* destroyed before the next one is probed, holding no thermal manager, no
\* power-service reference and no registered status callback; after the
\* return only the returned provider exists.
C8_OnlyReturnedExists ==
    /\ \A v \in sel.constructed : Precondition(v)
    /\ Existing \subseteq {sel.candidate}
    /\ thermal.listeners \subseteq Existing
    /\ thermal.managers \subseteq Existing
    /\ thermal.power_refs \subseteq Existing
    /\ sel.pc = "done" => Existing = {sel.selected} \ {"none"}

\* The native candidate was discarded with a NaN headroom, the JNI one returned
C8_Witness ==
    /\ sel.pc = "done" /\ sel.selected = "jni"
    /\ "native" \in sel.constructed
    /\ device.native.acquire /\ IsNaN(device.native.headroom)

\* C9 as stated: a native or JNI candidate whose probe-time headroom is NaN
\* reports IsAvailable() = false and is not returned
C9_NaNMeansUnavailable ==
    \A v \in {"native", "jni"} \cap Existing :
        IsNaN(device[v].headroom) =>
            ~sel.objects[v].is_available_ /\ sel.selected # v

\* C10: a tick that starts with the hint manager initialized and finds the
\* hint flag or the master flag off releases every session handle and the
\* hint-service handle and clears initialized_performance_hint_manager.
C10_DisableReleasesAll ==
    (tick.was_initialized /\ (tick.enabled = 0 \/ tick.hint_enabled = 0)) =>
        /\ ~adpf.initialized_performance_hint_manager
        /\ NoHandleHeld

\* The master switch went off on an Active manager: four references deleted
C10_Witness ==
    /\ tick.was_initialized /\ tick.enabled = 0
    /\ CountCalls(calls, "DeleteGlobalRef") = 4
    /\ NoHandleHeld

HintOn(t) == t.enabled = 1 /\ t.hint_enabled = 1

\* C11: a tick calls InitializePerformanceHintManager at most once, and not
\* at all when the tick before it also ran with the hint feature on (both
\* flags non-zero), whether that earlier attempt succeeded or failed; the
\* manager becomes initialized only in a tick that makes the call, starting
\* from no held handle, and every session handle it then holds is a live
\* global reference.
C11_OneInitPerCycle ==
    [][ LET inits == CountCalls(calls', "InitializePerformanceHintManager") IN
        /\ inits <= 1
        /\ (HintOn(tick) /\ HintOn(tick')) => inits = 0
        /\ (~adpf.initialized_performance_hint_manager
              /\ adpf'.initialized_performance_hint_manager) =>
                /\ inits = 1
                /\ NoHandleHeld
        /\ \A s \in SessionSet :
              adpf'.obj_perfhint_session_[s] => s \in jni_refs' ]_vars

\* A second enable-cycle: the initialization succeeded although the RHI
\* session was not created this time, and the game session is held again
C11_Witness ==
    /\ tick.init = "ok"
    /\ tick.out.session["rhi"] = "null"
    /\ adpf.obj_perfhint_session_["game"] /\ "game" \in jni_refs

\* C12 as stated: a tick with the master flag at 0 changes nothing of the
\* manager, the initialized flag and the session handles included
C12_Original ==
    [][ tick'.enabled = 0 => adpf' = adpf /\ jni_refs' = jni_refs ]_vars

\* The fields a disabled tick never writes
ThermalFields ==
    {"current_quality_level", "target_quality_level", "thermal_headroom_",
     "thermal_status_", "last_clock_", "fps_count", "get_thermal_headroom_",
     "support_performance_hint_manager", "prev_max_fps_nano"}

\* C12: a tick with the master flag at 0 leaves the quality levels, the
\* cached headroom, the last refresh time, the fps accumulator and the
\* support flag unchanged and applies no quality level; when the hint manager
\* was initialized the tick clears the initialized flag, releases the
\* hint-service handle and every session handle and resets the cached max
\* fps, and when it was not the tick changes nothing at all.
C12_DisabledTick ==
    [][ tick'.enabled = 0 =>
          /\ \A f \in ThermalFields : adpf'[f] = adpf[f]
          /\ apply_log' = apply_log /\ refreshes' = refreshes
          /\ \A i \in DOMAIN calls' : calls'[i].op = "DeleteGlobalRef"
          /\ IF adpf.initialized_performance_hint_manager
             THEN /\ ~adpf'.initialized_performance_hint_manager
                  /\ adpf'.prev_max_fps = NO_MAX_FPS
                  /\ ~adpf'.obj_perfhint_service_
                  /\ \A s \in SessionSet : ~adpf'.obj_perfhint_session_[s]
                  /\ jni_refs' = {}
             ELSE adpf' = adpf /\ jni_refs' = jni_refs /\ calls' = <<>> ]_vars

\* The master flag went off between two refreshes, on an Active manager
\* whose quality level had been changed
C12_Witness ==
    /\ tick.enabled = 0 /\ tick.was_initialized
    /\ adpf.fps_count > 0 /\ adpf.last_clock_ > 0
    /\ adpf.current_quality_level = 0
    /\ ~adpf.initialized_performance_hint_manager /\ jni_refs = {}

\* C13: a tick that gets past the master flag reads the headroom from the
\* platform exactly when its clock value is at least the threshold past
\* last_clock_, and then sets last_clock_ to that clock value; in every
\* other tick the headroom is not read and last_clock_ keeps its value.  So
\* last_clock_ is always the time of the latest refresh, and a refresh is at
\* least one threshold later than the one before it.
C13_Debounce ==
    [][ LET due == /\ tick'.enabled = 1
                   /\ now' - adpf.last_clock_ >= kThermalHeadroomUpdateThreshold
        IN  /\ CountCalls(calls', "getThermalHeadroom") = (IF due THEN 1 ELSE 0)
            /\ refreshes' = refreshes + (IF due THEN 1 ELSE 0)
            /\ adpf'.last_clock_ = (IF due THEN now' ELSE adpf.last_clock_)
            /\ adpf'.last_clock_ <= now' ]_vars

\* The second refresh, one threshold after the first, which itself came 22
\* seconds after construction (a 7 second tick, then a 15 second one)
C13_Witness ==
    /\ tick.refreshed /\ refreshes = 2
    /\ CountCalls(calls, "getThermalHeadroom") = 1
    /\ now = 37 /\ adpf.last_clock_ = 37

\* The sessions a tick's update logic has to report to: those holding a
\* handle, the game session only when its thread time is positive
DueSessions(m, times) ==
    {s \in SessionSet : m.obj_perfhint_session_[s]
                          /\ (s = "game" => times["game"] > 0)}

StatusLevel(st) ==
    LET l == (max_quality_count - 1) - st IN
    IF l < 0 THEN 0
    ELSE IF l > max_quality_count - 1 THEN max_quality_count - 1 ELSE l

\* C15 as stated: a refresh under the status policy (quality mode 2) sets the
\* target quality level to (K-1) - ordinal(status) clamped into 0..K-1, for
\* the status the listener delivered last
C15_StatusPolicy ==
    [][ (/\ adpf'.thermal_status_ = adpf.thermal_status_
         /\ tick'.refreshed /\ tick'.quality_mode = 2) =>
            adpf'.target_quality_level = StatusLevel(adpf.thermal_status_) ]_vars

\* Two consecutive ticks that both refreshed under the headroom policy, the
\* second reading at least as high as the first
RisingReadings ==
    /\ tick.refreshed /\ tick.quality_mode = 1
    /\ tick'.refreshed /\ tick'.quality_mode = 1
    /\ FLessEq(adpf.thermal_headroom_, adpf'.thermal_headroom_)

\* C16 as stated: of two readings h1 <= h2 the higher one never gets the
\* lower quality-level index
C16_Original ==
    [][ RisingReadings =>
            adpf.target_quality_level <= adpf'.target_quality_level ]_vars

\* C16: the level index falls as the headroom rises: of two readings
\* h1 <= h2 the higher one never gets the higher index, a reading below 0.75
\* gets K-1 and a reading of 0.95 or more gets 0.
C16_LevelFallsWithHeadroom ==
    [][ RisingReadings =>
          /\ adpf.target_quality_level >= adpf'.target_quality_level
          /\ adpf'.thermal_headroom_ >= 950 => adpf'.target_quality_level = 0
          /\ adpf.thermal_headroom_ < 750 =>
                 adpf.target_quality_level = max_quality_count - 1 ]_vars

\* The readings 0.80 then 0.97 in consecutive refreshes: levels 2 then 0
C16_Witness ==
    /\ tick.refreshed /\ tick.quality_mode = 1
    /\ now = 30 /\ refreshes = 2
    /\ adpf.thermal_headroom_ = 970 /\ apply_log = <<2, 0>>

\* The hint manager is initialized when the tick returns
Active == tick.enabled = 1 /\ adpf.initialized_performance_hint_manager

\* C17 as stated: every tick that leaves the hint manager Active has
\* reported a duration to all three sessions
C17_Original == Active => ReportedSessions(calls) = SessionSet

\* C17: every tick that leaves the hint manager Active has reported exactly
\* once to the render and to the RHI session when they hold a handle,
\* whatever their thread times, and to the game session when it holds a
\* handle and the game thread time is positive, whether or not the tick
\* refreshed the headroom.
C17_ReportsEveryTick ==
    Active =>
        /\ ReportedSessions(calls) = DueSessions(adpf, tick.times)
        /\ CountCalls(calls, "reportActualWorkDuration") =
               Cardinality(DueSessions(adpf, tick.times))

\* A refreshing tick with the game thread idle: the render and the RHI
\* session got their report (the RHI one a duration of 0), the game session
\* none
C17_Witness ==
    /\ Active /\ tick.refreshed
    /\ tick.times = Times(0, 3, 5)
    /\ ReportedSessions(calls) = {"render", "rhi"}

CalledSessions(cs) == {cs[i].obj : i \in DOMAIN cs}
PushedSessions(cs) ==
    {cs[i].obj : i \in CallsOf(cs, "updateTargetWorkDuration")}

\* C18 as stated: a session whose thread time is not positive in an
\* updating tick is torn down by that tick, its handle released
C18_Original ==
    \A s \in SessionSet :
        (tick.updated /\ tick.times[s] <= 0) =>
            ~adpf.obj_perfhint_session_[s] /\ s \notin jni_refs

\* C18: a non-positive thread time tears nothing down.  An updating tick
\* releases no handle and leaves the manager initialized; when the game
\* thread time is not positive it sends nothing to the game session and
\* resets the cached max fps, so that the next tick with a positive game
\* thread time pushes the target duration to every session holding a handle
\* (unless max fps is -1); a non-positive render or RHI thread time is
\* reported like any other.
C18_IdleThreadKeepsSessions ==
    [][ /\ tick'.updated =>
              /\ adpf'.initialized_performance_hint_manager
              /\ CountCalls(calls', "DeleteGlobalRef") = 0
              /\ jni_refs \subseteq jni_refs'
              /\ {"render", "rhi"} \cap DueSessions(adpf', tick'.times)
                     \subseteq ReportedSessions(calls')
        /\ (tick'.updated /\ tick'.times["game"] <= 0) =>
              /\ "game" \notin CalledSessions(calls')
              /\ adpf'.prev_max_fps = NO_MAX_FPS
        /\ (/\ tick.updated /\ tick.times["game"] <= 0
            /\ tick'.updated /\ tick'.times["game"] > 0
            /\ tick'.max_fps # NO_MAX_FPS) =>
              PushedSessions(calls') = DueSessions(adpf', tick'.times) ]_vars

\* On a manager already Active the game and the RHI thread time are 0: all
\* four references are still held, render and RHI were reported to
C18_Witness ==
    /\ tick.updated /\ tick.was_initialized
    /\ tick.times = Times(0, 3, 0) /\ tick.max_fps = 30
    /\ jni_refs = SessionSet \cup {"service"}
    /\ ReportedSessions(calls) = {"render", "rhi"}
    /\ adpf.prev_max_fps = NO_MAX_FPS

\* The durations reported to session s in a tick, one element per call
ReportsTo(cs, s) ==
    {i \in CallsOf(cs, "reportActualWorkDuration") : cs[i].obj = s}
Longest(a, b) == IF a > b THEN a ELSE b

\* C19 as stated: render and RHI form one group that gets a single report
\* per tick, carrying the longer of the two measured durations
C19_Original ==
    tick.updated =>
        LET rs == ReportsTo(calls, "render") \cup ReportsTo(calls, "rhi") IN
        /\ Cardinality(rs) = 1
        /\ \A i \in rs :
              calls[i].arg = Longest(tick.times["render"], tick.times["rhi"]) * 1000

\* C19: the render thread and the RHI thread have a session each; in an
\* updating tick each of the two sessions that holds a handle gets exactly
\* one report, carrying its own thread's measured duration: two separate
\* reports, neither the maximum nor the sum of the two durations.
C19_OwnDurationEach ==
    tick.updated =>
        \A s \in {"render", "rhi"} :
            IF adpf.obj_perfhint_session_[s]
            THEN /\ Cardinality(ReportsTo(calls, s)) = 1
                 /\ \A i \in ReportsTo(calls, s) :
                       calls[i].arg = tick.times[s] * 1000
            ELSE ReportsTo(calls, s) = {}

\* Render time 3, RHI time 5: the render session was told 3000, the RHI
\* session 5000
C19_Witness ==
    /\ tick.updated /\ tick.times = Times(0, 3, 5)
    /\ \E i \in ReportsTo(calls, "render") : calls[i].arg = 3000
    /\ \E i \in ReportsTo(calls, "rhi") : calls[i].arg = 5000

Abs(x) == IF x < 0 THEN 0 - x ELSE x

\* The target durations pushed in the last tick
PushedTargets(cs) ==
    {cs[i].arg : i \in CallsOf(cs, "updateTargetWorkDuration")}

\* a is within tol ns of the exact quotient 1e9 / f
WithinNs(a, f, tol) == Abs(a * f - 1000000000) <= tol * f

\* The distance between neighbouring single-precision values at x (x >= 1)
RECURSIVE FloatStep(_)
FloatStep(x) == IF x < Pow2(24) THEN 1 ELSE 2 * FloatStep(x \div 2)

\* C20 as stated, with the 1 ns rounding allowance it gives for 30 fps taken
\* for every positive max fps: the target is 16666666 for max fps <= 0 and
\* within 1 ns of 1e9 / maxFps otherwise
C20_Original ==
    \A a \in PushedTargets(calls) :
        IF tick.max_fps <= 0 THEN a = DEFAULT_TARGET_NS
        ELSE WithinNs(a, tick.max_fps, 1)

\* C20: the target duration pushed for a max fps is 16666666 ns for every
\* max fps <= 0 and otherwise the single-precision quotient 1e9 / maxFps cut
\* to an integer: within half a single-precision step of the exact quotient
\* where that step is 2 ns or more (at most 32 ns, for max fps >= 1), within
\* 1 ns where it is less, so within 1 ns for every max fps >= 30, and
\* 33333334 ns for 30; it is also the value cached in prev_max_fps_nano.
C20_TargetDuration ==
    \A a \in PushedTargets(calls) :
        LET f == tick.max_fps IN
        /\ adpf.prev_max_fps_nano = a
        /\ IF f <= 0 THEN a = DEFAULT_TARGET_NS
           ELSE /\ LET step == FloatStep(1000000000 \div f) IN
                   2 * Abs(a * f - 1000000000)
                       <= (IF step < 2 THEN 2 ELSE step) * f
                /\ WithinNs(a, f, 32)
                /\ f >= 30 => WithinNs(a, f, 1)
                /\ f = 30 => a = 33333334

\* 24 fps: the pushed target is 41666668 ns, 1.33 ns above 1e9 / 24
C20_Witness ==
    /\ tick.max_fps = 24
    /\ PushedTargets(calls) = {41666668}
    /\ PushedSessions(calls) = SessionSet

\* A Monitor() step of a running process
Ticked == life.phase = "running" /\ life'.phase = "running"

\* C21: a hint-session initialization failure does not outlive the
\* singleton.  When the manager is constructed anew the support flag is set
\* again, and in a run that follows one with a failed initialization a tick
\* with both switches on, taken before anything failed in the new run and
\* with the hint manager not yet initialized, calls
\* InitializePerformanceHintManager() again.
C21_ReinitClearsSticky ==
    [][ /\ (life.phase = "unborn" /\ life'.phase # "unborn")
            => adpf'.support_performance_hint_manager
        /\ ( /\ Ticked /\ life.rerun /\ ~life.failed
             /\ ~adpf.initialized_performance_hint_manager
             /\ tick'.enabled = 1 /\ tick'.hint_enabled # 0 )
            => /\ tick'.init # "none"
               /\ CountCalls(calls', "InitializePerformanceHintManager") = 1
      ]_vars

\* A run after a failed one, in which initialization was attempted again and
\* this time created the sessions
C21_Witness ==
    /\ life.rerun /\ life.phase = "running"
    /\ tick.init = "ok" /\ ~tick.was_initialized
    /\ CountCalls(calls, "InitializePerformanceHintManager") = 1
    /\ adpf.initialized_performance_hint_manager

\* The status the Samsung mapping is said to give for a warning level
SamsungStatus(level) ==
    CASE level = 0 -> 0 [] level = 1 -> 2 [] level = 2 -> 3 [] level = -999 -> -1

StatusesOf(entries) == [i \in DOMAIN entries |-> entries[i].status]

\* C22: the Samsung provider gives NONE for warning level 0, MODERATE for 1,
\* SEVERE for 2 and ERROR for -999, in what GetThermalStatus() returns and
\* in what every registered callback is handed; the levels 0, 1, 2, -999 in
\* this order give NONE, MODERATE, SEVERE, ERROR in this order.
C22_SamsungStatusMapping ==
    /\ \A i \in DOMAIN samsung.polled :
         samsung.polled[i].level \in {0, 1, 2, -999}
            => samsung.polled[i].status = SamsungStatus(samsung.polled[i].level)
    /\ \A i \in DOMAIN samsung.dispatched :
         samsung.levels[i] \in {0, 1, 2, -999}
            => /\ Len(samsung.dispatched[i]) = Len(samsung.g_callbacks)
               /\ \A j \in DOMAIN samsung.dispatched[i] :
                    /\ samsung.dispatched[i][j].callback = samsung.g_callbacks[j]
                    /\ samsung.dispatched[i][j].status
                          = SamsungStatus(samsung.levels[i])
    /\ ( samsung.levels = <<0, 1, 2, -999>>
         /\ [i \in DOMAIN samsung.polled |-> samsung.polled[i].level]
               = samsung.levels )
       => StatusesOf(samsung.polled) = <<0, 2, 3, -1>>

\* The four levels in order, each polled once and handed to a callback
C22_Witness ==
    /\ samsung.levels = <<0, 1, 2, -999>>
    /\ StatusesOf(samsung.polled) = <<0, 2, 3, -1>>
    /\ samsung.g_callbacks # <<>>
    /\ \A i \in 1 .. 4 : StatusesOf(samsung.dispatched[i])
                            = [j \in DOMAIN samsung.g_callbacks |->
                                 <<0, 2, 3, -1>>[i]]

\* C23 as stated: the Samsung headroom for a raw reading r is r / 10 for
\* every r in the closed range [0, 10], 1.0 for r = 10 included, and 0 for
\* every r below 0 or above 10.  (r in tenths, the headroom in thousandths.)
C23_SamsungHeadroom ==
    LET r == samsung.headroom.raw IN
    r # Unread =>
        samsung.headroom.value = IF r >= 0 /\ r <= 100 THEN r * 10 ELSE 0

Registered(g) == {g[i] : i \in DOMAIN g}

\* C24: SamsungProvider::UnregisterCallback of a callback that is not in
\* g_callbacks hits checkNoEntry() and leaves g_callbacks as it was.
C24_UnregisterUnknownIsFatal ==
    [][ ( samsung'.removed # samsung.removed
          /\ samsung'.removed.callback \notin Registered(samsung.g_callbacks) )
        => /\ samsung'.fatal
           /\ samsung'.g_callbacks = samsung.g_callbacks ]_vars

\* cb2 was unregistered while only cb1 was registered
C24_Witness ==
    /\ samsung.removed.callback = "cb2"
    /\ samsung.removed.before = <<"cb1">>
    /\ samsung.g_callbacks = <<"cb1">>
    /\ samsung.fatal

\* C25 as stated: the status callback's write of thermal_status_ and the
\* tick thread's read of it never overlap; one waits for the other.
C25_StatusAccessSynchronized == ~(push.pending # Unread /\ push.reading)

\* The field the provider caches the status in
CachedStatus == sel.objects[sel.selected].thermal_status_

\* C27: GetThermalStatus() of the native and of the JNI provider returns
\* NONE as long as no status callback has stored a status, and after that
\* the status stored by the most recent callback.
C27_LastDeliveredStatus ==
    [][ (push.reading /\ ~push'.reading)
        => push'.got = IF push.last = Unread THEN NONE ELSE push.last ]_vars

\* Two deliveries, the second one read back
C27_Witness ==
    /\ PushInUse /\ sel.selected = "jni"
    /\ push.last = SEVERE /\ push.got = SEVERE /\ push.pending = MODERATE
    /\ CachedStatus = SEVERE

\* The platform calls a destructor made, oldest first
CallsSince(before, after) == SubSeq(after, Len(before) + 1, Len(after))

\* C26: when the native or the JNI provider that CreateThermalProvider
\* returned is destroyed, its destructor calls
\* AThermal_unregisterThermalStatusListener and then AThermal_releaseManager,
\* in this order, and afterwards the platform holds neither a listener nor a
\* manager of that provider.
C26_UnregisterBeforeRelease ==
    [][ ( sel.pc = "done" /\ sel'.pc = "destroyed"
          /\ sel.selected \in {"native", "jni"} )
        => LET v == sel.selected
               made == CallsSince(thermal.log, thermal'.log) IN
           /\ made = << Call("unregisterThermalStatusListener", v, 0),
                        Call("releaseManager", v, 0) >>
           /\ v \notin thermal'.listeners
           /\ v \notin thermal'.managers ]_vars

\* The JNI provider was returned, used and destroyed
C26_Witness ==
    /\ sel.pc = "destroyed" /\ sel.selected = "jni"
    /\ Len(thermal.log) >= 2
    /\ thermal.log[Len(thermal.log)] = Call("releaseManager", "jni", 0)
    /\ thermal.listeners = {}

\* C28: once ~ADPFManager() has run, whether the hint manager was never
\* initialized, active, torn down or marked unsupported, the platform holds
\* no hint-session reference, no hint-service reference and no
\* power-service reference of the manager, and the manager's hint handles
\* are null.
C28_ShutdownReleasesAll ==
    life.phase = "unborn"
        => /\ jni_refs = {}
           /\ life.power_refs = 0
           /\ ~adpf.obj_perfhint_service_
           /\ \A s \in SessionSet : ~adpf.obj_perfhint_session_[s]

\* The destructor found the hint manager active: it released the three
\* sessions, the hint service and the power service
C28_Witness ==
    /\ life.phase = "unborn"
    /\ adpf.initialized_performance_hint_manager
    /\ [i \in DOMAIN calls |-> calls[i].obj]
          = <<"game", "render", "rhi", "service", "power">>

\* The destructor ran on a manager marked unsupported after a failed
\* initialization
C28_WitnessSticky ==
    /\ life.phase = "unborn" /\ life.failed
    /\ ~adpf.support_performance_hint_manager

\* C29: on one device (API level and platform answers fixed) every call of
\* CreateThermalProvider() that returns gives the same variant, or nullptr
\* every time, whatever the earlier calls left behind: the providers they
\* built and destroyed, the contents of the memory a new provider is put in.
C29_SelectionDeterministic ==
    \A i, j \in DOMAIN sel.returned : sel.returned[i] = sel.returned[j]

\* A second selection returned, after the first one discarded the native
\* candidate, returned the JNI provider and that provider was destroyed
C29_Witness ==
    /\ Len(sel.returned) = 2 /\ sel.returned[2] = "jni"
    /\ sel.pc = "done"
    /\ device.api_level >= 31
    /\ thermal.log # <<>>

TableIndices == 0 .. max_quality_count - 1

\* C30: the current and the target quality level, every level handed to
\* SetQualityLevels and with it every index quality_levels[] is read at,
\* lie in 0 .. max_quality_count - 1.
C30_LevelsInTable ==
    /\ adpf.current_quality_level \in TableIndices
    /\ adpf.target_quality_level \in TableIndices
    /\ \A i \in DOMAIN apply_log : apply_log[i] \in TableIndices
    /\ \A i \in CallsOf(calls, "SetQualityLevels") : calls[i].arg \in TableIndices

\* The level went from the top of the table to the bottom and back
C30_Witness ==
    /\ Len(apply_log) >= 2
    /\ apply_log[1] = 0
    /\ apply_log[2] = max_quality_count - 1
    /\ adpf.current_quality_level = max_quality_count - 1

\* C31: a Monitor() call that reads quality mode 0 leaves the current and
\* the target quality level as they were and applies no quality level,
\* whatever the headroom it has just read; it still refreshes the headroom
\* (one getThermalHeadroom call, last_clock_ set to the clock it read) and
\* still updates the hint sessions: one report to the render and to the RHI
\* session, and to the game session when its thread time is positive.
C31_ModeZeroLeavesQuality ==
    [][ tick'.quality_mode = 0
        => /\ adpf'.current_quality_level = adpf.current_quality_level
           /\ adpf'.target_quality_level = adpf.target_quality_level
           /\ apply_log' = apply_log
           /\ CallsOf(calls', "SetQualityLevels") = {}
           /\ tick'.refreshed
           /\ refreshes' = refreshes + 1
           /\ adpf'.last_clock_ = now'
           /\ adpf'.fps_count = 0
           /\ adpf.get_thermal_headroom_
                 => CountCalls(calls', "getThermalHeadroom") = 1
           /\ tick'.updated
                 => \A s \in SessionSet :
                      Cardinality(ReportsTo(calls', s))
                         = IF adpf'.obj_perfhint_session_[s]
                              /\ (s = "game" => tick'.times[s] > 0)
                           THEN 1 ELSE 0 ]_vars

\* Under quality mode 0 a refresh read a headroom of 0.97, for which the
\* policy asks level 0; the levels stayed at 3 and the three sessions got
\* their reports in that tick
C31_Witness ==
    /\ tick.quality_mode = 0 /\ tick.refreshed /\ tick.updated
    /\ adpf.thermal_headroom_ = 970
    /\ adpf.target_quality_level = 3 /\ adpf.current_quality_level = 3
    /\ apply_log = <<>>
    /\ CountCalls(calls, "getThermalHeadroom") = 1
    /\ CountCalls(calls, "reportActualWorkDuration") = 3

\* The target duration Monitor() computes for a max fps setting
TargetFor(max_fps) ==
    IF max_fps <= 0 THEN DEFAULT_TARGET_NS ELSE fpsToNanosec(max_fps)

\* C32 as stated: in the tick in which InitializePerformanceHintManager()
\* succeeds, first initialization or not, the update that follows pushes the
\* target duration of the max fps it reads to each of the three sessions,
\* whatever that max fps is.
C32_FirstUpdatePushesTarget ==
    [][ tick'.init = "ok"
        => \A s \in SessionSet :
             \E i \in CallsOf(calls', "updateTargetWorkDuration") :
               /\ calls'[i].obj = s
               /\ calls'[i].arg = TargetFor(tick'.max_fps) ]_vars

\* C33 as stated: whenever Monitor() returns with
\* initialized_performance_hint_manager set, the hint-service handle and the
\* game, render and RHI session handles are non-null and the platform holds
\* their references, a re-initialization after a teardown included.
C33_InitializedMeansLive ==
    adpf.initialized_performance_hint_manager
        => /\ adpf.obj_perfhint_service_ /\ "service" \in jni_refs
           /\ \A s \in SessionSet :
                adpf.obj_perfhint_session_[s] /\ s \in jni_refs

\* C34: when Monitor() returns, current_quality_level equals
\* target_quality_level, whatever headrooms were read, whatever the quality
\* mode was in each refresh and whether the tick was enabled or not.
C34_CurrentEqualsTarget ==
    adpf.current_quality_level = adpf.target_quality_level

\* The level was taken to 0 under mode 1; a later refresh under mode 0 read
\* a headroom of 0.60, for which the policy asks level 3, and both levels
\* are still 0
C34_Witness ==
    /\ tick.quality_mode = 0 /\ tick.refreshed
    /\ adpf.thermal_headroom_ = 600
    /\ apply_log = <<0>>
    /\ adpf.current_quality_level = 0 /\ adpf.target_quality_level = 0

\* The references the platform holds for the manager: the hint service and
\* its sessions, and the power service when registerListener() has taken it
LiveRefs == jni_refs \cup (IF life.power_refs > 0 THEN {"power"} ELSE {})

\* The references the platform hands out during an initialization with
\* outcome out: the hint service, and each session it did create
CreatedRefs(out) ==
    IF out.fid
    THEN {"service"} \cup {s \in SessionSet : out.session[s] # "null"}
    ELSE {}

\* Whether the calls cs, made in this order with the references in live
\* alive at the start, delete only live references and reach a session only
\* through a live reference; an initialization in cs adds created to them
RECURSIVE ValidCalls(_, _, _)
ValidCalls(live, created, cs) ==
    IF cs = <<>> THEN TRUE
    ELSE LET c == Head(cs) IN
         CASE c.op = "InitializePerformanceHintManager" ->
                ValidCalls(live \cup created, created, Tail(cs))
           [] c.op = "DeleteGlobalRef" ->
                c.obj \in live /\ ValidCalls(live \ {c.obj}, created, Tail(cs))
           [] c.op \in {"reportActualWorkDuration", "updateTargetWorkDuration"} ->
                c.obj \in live /\ ValidCalls(live, created, Tail(cs))
           [] OTHER -> ValidCalls(live, created, Tail(cs))

\* C35: every DeleteGlobalRef the manager issues, in a tick or in its
\* destructor, is on a reference the platform still holds, so none is
\* released twice, and every reportActualWorkDuration and
\* updateTargetWorkDuration call is on a session whose reference is still
\* held at the moment of the call.
C35_NoDoubleReleaseNoStaleUse ==
    [][ ValidCalls(LiveRefs, CreatedRefs(tick'.out), calls') ]_vars

\* The first initialization found no RHI session and released what it had
\* created; the destructor then ran and released the power service only
C35_Witness ==
    /\ life.phase = "unborn" /\ life.failed
    /\ tick.out = NoRHISession
    /\ ~adpf.support_performance_hint_manager
    /\ calls = <<Call("DeleteGlobalRef", "power", 0)>>

\* C36 as stated: every duration handed to reportActualWorkDuration is
\* strictly positive; a session whose thread time is zero or negative in a
\* tick gets no report in that tick, the game, the render and the RHI
\* session alike.
C36_ReportsArePositive ==
    /\ \A i \in CallsOf(calls, "reportActualWorkDuration") : calls[i].arg > 0
    /\ tick.updated
          => \A s \in SessionSet :
               tick.times[s] <= 0 => ReportsTo(calls, s) = {}

\* C37: every updateTargetWorkDuration call of a tick carries the target
\* duration of the max fps read in that tick -- 16666666 for a max fps <= 0,
\* the 1e9 / maxFps quotient otherwise -- and never the value cached from an
\* earlier max fps nor the 0 the constructor leaves in prev_max_fps_nano.
C37_PushedTargetIsFresh ==
    [][ \A i \in CallsOf(calls', "updateTargetWorkDuration") :
          /\ calls'[i].arg = TargetFor(tick'.max_fps)
          /\ calls'[i].arg # 0
          /\ tick'.max_fps <= 0 => calls'[i].arg = 16666666
          /\ tick'.max_fps = 60 => calls'[i].arg = 16666667
          /\ tick'.max_fps = 30 => WithinNs(calls'[i].arg, 30, 1) ]_vars

\* On a manager that was already Active, and so had cached the duration of
\* another max fps or the initial 0, a tick read a max fps of 30 and pushed
\* the target of 30 to the three sessions
C37_Witness ==
    /\ tick.was_initialized /\ tick.max_fps = 30
    /\ PushedSessions(calls) = SessionSet
    /\ PushedTargets(calls) = {TargetFor(30)}
    /\ adpf.prev_max_fps_nano = TargetFor(30)

\* C38 as stated: while nativeOnHighTempWarning, on the GameSDK's thread, is
\* in its loop over g_callbacks, no RegisterCallback or UnregisterCallback
\* is in progress on another thread.
C38_DispatchExcludesChange ==
    ~(samsung.warning.level # Unread /\ samsung.changing.op # "none")

\* C39 as stated: a provider's destructor, run on a candidate discarded by
\* the selection or on the returned provider, unregisters the status
\* callback only when Init registered it, and touches the thermal-manager
\* handle only when Init assigned it.
C39_DestructorUndoesOnlyInit ==
    [][ /\ \A i \in DOMAIN CallsSince(thermal.log, thermal'.log) :
             CallsSince(thermal.log, thermal'.log)[i].op
                   = "unregisterThermalStatusListener"
                => CallsSince(thermal.log, thermal'.log)[i].obj
                      \in thermal.listeners
        /\ thermal'.invalid_use = thermal.invalid_use ]_vars

====
